---- MODULE Spec2Model ----
(***************************************************************************)
(* Payroll calculator (src/Payroll_calculator).                            *)
(*                                                                         *)
(* Decimal amounts are exact integers counted in mils (1/1000 dollar);     *)
(* an exact intermediate value is a fraction num/den of mils.  Worked      *)
(* units (hours or days) are counted in tenths.  A Python call is one      *)
(* invocation at a time: pc tells where the current invocation stands.     *)
(***************************************************************************)
EXTENDS Integers, Sequences, FiniteSets, TLC

(* ---------------------------- units ----------------------------------- *)
\* mils per dollar: the unit all Decimal amounts are counted in
Scale == 1000
\* mils per cent: the quantum Decimal("0.01") of _round_currency
Quantum == 10
\* tenths per worked unit (hour or day)
UnitScale == 10

(* ------------------------- program constants -------------------------- *)
TAX_BRACKET_1_MAX == 1000
TAX_BRACKET_2_MAX == 3000
TAX_BRACKET_3_MAX == 5000
HEALTH_INSURANCE == 150
\* Decimal("0.05"), in percent
RETIREMENT_RATE == 5
UNION_DUES == 50
MAX_PART_TIME_HOURS == 120
\* process_monthly_payroll defaults (hours, days, unused)
DEFAULT_PART_TIME_HOURS == 80
DEFAULT_CONTRACTOR_DAYS == 20
DEFAULT_FULL_TIME_UNITS == 0

(* ------------------------------ bounds -------------------------------- *)
\* longest employee list handed to process_monthly_payroll
MaxEmployees == 3
\* calculate_tax is called with every gross within GrossWindow mils of a
\* bracket boundary, and with every multiple of GrossStep up to GrossSteps
GrossWindow == 25
GrossSteps == 70
\* calculate_deductions is called with every gross of 0..SmallGross mils
SmallGross == 120
\* a raw text handed to normalize_text has at most MaxRaw characters
MaxRaw == 4
\* a text holds at most MaxWords whitespace-separated words
MaxWords == 3
\* get_top_n_words is asked for n in -MaxN..MaxN
MaxN == 3

(* ------------------------------ helpers ------------------------------- *)
Abs(x) == IF x < 0 THEN -x ELSE x

Sign(x) == IF x < 0 THEN -1 ELSE 1

\* an absent value (no return value, no exception, argument omitted) is the
\* empty sequence, a present value v is <<v>>
Absent == << >>

Some(v) == <<v>>

\* the empty dict
EmptyDict == [k \in {} |-> 0]

RECURSIVE SumValues(_)
\* sum(d.values()), starting from the int 0
SumValues(d) ==
    IF DOMAIN d = {} THEN 0
    ELSE LET k == CHOOSE x \in DOMAIN d : TRUE
         IN  d[k] + SumValues([j \in DOMAIN d \ {k} |-> d[j]])

(* ------------------------------ Employee ------------------------------ *)
EmployeeType == {"FULL_TIME", "PART_TIME", "CONTRACTOR"}

\* Employee.__init__ : pay_rate = Decimal(str(pay_rate)) keeps the exact
\* decimal value, here in mils
Employee(id, name, employee_type, pay_rate, is_union_member, has_retirement) ==
    [id |-> id, name |-> name, employee_type |-> employee_type,
     pay_rate |-> pay_rate, is_union_member |-> is_union_member,
     has_retirement |-> has_retirement]

(* ------------------------------ PaySlip ------------------------------- *)
PaySlip(employee, gross_pay, tax_amount, deductions, net_pay) ==
    [employee |-> employee, gross_pay |-> gross_pay, tax_amount |-> tax_amount,
     deductions |-> deductions, net_pay |-> net_pay]

(* -------------------------- PayrollProcessor -------------------------- *)
\* the outcome of a call: a return value or a raised exception
Return(v) == [raised |-> Absent, value |-> Some(v)]

Raise(e) == [raised |-> Some(e), value |-> Absent]

\* ValueError(f"PART_TIME employees cannot exceed {MAX_PART_TIME_HOURS} hours/month")
PartTimeHoursError ==
    [type |-> "ValueError",
     template |-> "PART_TIME employees cannot exceed {} hours/month",
     interpolated |-> <<ToString(MAX_PART_TIME_HOURS)>>]

\* ValueError(f"Unknown employee type: {employee.employee_type}")
UnknownTypeError(employee_type) ==
    [type |-> "ValueError",
     template |-> "Unknown employee type: {}",
     interpolated |-> <<employee_type>>]

\* quantize with the default rounding of Decimal, ROUND_HALF_EVEN: a tie goes
\* to the even cent
round_currency_half_even(num, den) ==
    LET q == den * Quantum
        f == Abs(num) \div q
        r == Abs(num) - f * q
        up == 2 * r > q \/ (2 * r = q /\ f % 2 = 1)
    IN  Sign(num) * (IF up THEN f + 1 ELSE f) * Quantum

\* Decimal(str(value)).quantize(Decimal("0.01"), rounding=ROUND_HALF_UP) of
\* the exact value num/den mils (den > 0): the magnitude plus half a cent,
\* cut to whole cents, so that ties go away from zero
round_currency(num, den) ==
    LET q == den * Quantum
    IN  Sign(num) * ((Abs(num) + q \div 2) \div q) * Quantum

\* calculate_gross_pay with the limit tested by >= : 120 hours are rejected
calculate_gross_pay_limit_inclusive(employee, hours_or_days) ==
    LET pay_rate == employee.pay_rate
    IN  IF employee.employee_type = "FULL_TIME"
          THEN Return(round_currency(pay_rate, 1))
        ELSE IF employee.employee_type = "PART_TIME"
          THEN IF hours_or_days >= MAX_PART_TIME_HOURS * UnitScale
                 THEN Raise(PartTimeHoursError)
                 ELSE Return(round_currency(pay_rate * hours_or_days, UnitScale))
        ELSE IF employee.employee_type = "CONTRACTOR"
          THEN Return(round_currency(pay_rate * hours_or_days, UnitScale))
        ELSE Raise(UnknownTypeError(employee.employee_type))

\* calculate_gross_pay with the limit tested before the category: FULL_TIME
\* is limited too
calculate_gross_pay_limit_full_time(employee, hours_or_days) ==
    LET pay_rate == employee.pay_rate
    IN  IF employee.employee_type \in {"FULL_TIME", "PART_TIME"}
             /\ hours_or_days > MAX_PART_TIME_HOURS * UnitScale
          THEN Raise(PartTimeHoursError)
        ELSE IF employee.employee_type = "FULL_TIME"
          THEN Return(round_currency(pay_rate, 1))
        ELSE IF employee.employee_type = "PART_TIME"
          THEN Return(round_currency(pay_rate * hours_or_days, UnitScale))
        ELSE IF employee.employee_type = "CONTRACTOR"
          THEN Return(round_currency(pay_rate * hours_or_days, UnitScale))
        ELSE Raise(UnknownTypeError(employee.employee_type))

\* calculate_gross_pay with the limit applied to every category paid by the
\* unit: CONTRACTOR is limited too
calculate_gross_pay_limit_contractor(employee, hours_or_days) ==
    LET pay_rate == employee.pay_rate
    IN  IF employee.employee_type = "FULL_TIME"
          THEN Return(round_currency(pay_rate, 1))
        ELSE IF employee.employee_type \in {"PART_TIME", "CONTRACTOR"}
          THEN IF hours_or_days > MAX_PART_TIME_HOURS * UnitScale
                 THEN Raise(PartTimeHoursError)
                 ELSE Return(round_currency(pay_rate * hours_or_days, UnitScale))
        ELSE Raise(UnknownTypeError(employee.employee_type))

\* calculate_gross_pay that also rejects PART_TIME hours below zero
calculate_gross_pay_rejects_negative(employee, hours_or_days) ==
    LET pay_rate == employee.pay_rate
    IN  IF employee.employee_type = "FULL_TIME"
          THEN Return(round_currency(pay_rate, 1))
        ELSE IF employee.employee_type = "PART_TIME"
          THEN IF hours_or_days > MAX_PART_TIME_HOURS * UnitScale \/ hours_or_days < 0
                 THEN Raise(PartTimeHoursError)
                 ELSE Return(round_currency(pay_rate * hours_or_days, UnitScale))
        ELSE IF employee.employee_type = "CONTRACTOR"
          THEN Return(round_currency(pay_rate * hours_or_days, UnitScale))
        ELSE Raise(UnknownTypeError(employee.employee_type))

\* calculate_gross_pay whose error message also carries the rejected value
calculate_gross_pay_reports_value(employee, hours_or_days) ==
    LET pay_rate == employee.pay_rate
    IN  IF employee.employee_type = "FULL_TIME"
          THEN Return(round_currency(pay_rate, 1))
        ELSE IF employee.employee_type = "PART_TIME"
          THEN IF hours_or_days > MAX_PART_TIME_HOURS * UnitScale
                 THEN Raise([type |-> "ValueError",
                             template |-> "PART_TIME employees cannot exceed {} hours/month, got {}",
                             interpolated |-> <<ToString(MAX_PART_TIME_HOURS),
                                                ToString(hours_or_days \div UnitScale)>>])
                 ELSE Return(round_currency(pay_rate * hours_or_days, UnitScale))
        ELSE IF employee.employee_type = "CONTRACTOR"
          THEN Return(round_currency(pay_rate * hours_or_days, UnitScale))
        ELSE Raise(UnknownTypeError(employee.employee_type))

\* calculate_gross_pay whose last branch pays the rate as a salary instead of
\* raising
calculate_gross_pay_unknown_as_salary(employee, hours_or_days) ==
    LET pay_rate == employee.pay_rate
    IN  IF employee.employee_type = "PART_TIME"
          THEN IF hours_or_days > MAX_PART_TIME_HOURS * UnitScale
                 THEN Raise(PartTimeHoursError)
                 ELSE Return(round_currency(pay_rate * hours_or_days, UnitScale))
        ELSE IF employee.employee_type = "CONTRACTOR"
          THEN Return(round_currency(pay_rate * hours_or_days, UnitScale))
        ELSE Return(round_currency(pay_rate, 1))

calculate_gross_pay(employee, hours_or_days) ==
    LET pay_rate == employee.pay_rate
    IN  IF employee.employee_type = "FULL_TIME"
          THEN Return(round_currency(pay_rate, 1))
        ELSE IF employee.employee_type = "PART_TIME"
          THEN IF hours_or_days > MAX_PART_TIME_HOURS * UnitScale
                 THEN Raise(PartTimeHoursError)
                 ELSE Return(round_currency(pay_rate * hours_or_days, UnitScale))
        ELSE IF employee.employee_type = "CONTRACTOR"
          THEN Return(round_currency(pay_rate * hours_or_days, UnitScale))
        ELSE Raise(UnknownTypeError(employee.employee_type))

\* calculate_tax whose top bracket forgets the amount of the 20% bracket
calculate_tax_top_bracket_short(gross_pay) ==
    LET gross == gross_pay
        b1 == TAX_BRACKET_1_MAX * Scale
        b2 == TAX_BRACKET_2_MAX * Scale
        b3 == TAX_BRACKET_3_MAX * Scale
        tax == IF gross <= b1 THEN 0
               ELSE IF gross <= b2 THEN (gross - b1) * 10
               ELSE IF gross <= b3 THEN (b2 - b1) * 10 + (gross - b2) * 20
               ELSE (b2 - b1) * 10 + (gross - b3) * 30
    IN  round_currency(tax, 100)

\* calculate_tax that applies the rate of the 10% bracket to the whole gross
calculate_tax_rate_on_whole_gross(gross_pay) ==
    LET gross == gross_pay
        b1 == TAX_BRACKET_1_MAX * Scale
        b2 == TAX_BRACKET_2_MAX * Scale
        b3 == TAX_BRACKET_3_MAX * Scale
        tax == IF gross <= b1 THEN 0
               ELSE IF gross <= b2 THEN gross * 10
               ELSE IF gross <= b3 THEN (b2 - b1) * 10 + (gross - b2) * 20
               ELSE (b2 - b1) * 10 + (b3 - b2) * 20 + (gross - b3) * 30
    IN  round_currency(tax, 100)

\* the rates Decimal("0.10"), Decimal("0.20"), Decimal("0.30") are percents
\* over the denominator 100
calculate_tax(gross_pay) ==
    LET gross == gross_pay
        b1 == TAX_BRACKET_1_MAX * Scale
        b2 == TAX_BRACKET_2_MAX * Scale
        b3 == TAX_BRACKET_3_MAX * Scale
        tax == IF gross <= b1 THEN 0
               ELSE IF gross <= b2 THEN (gross - b1) * 10
               ELSE IF gross <= b3 THEN (b2 - b1) * 10 + (gross - b2) * 20
               ELSE (b2 - b1) * 10 + (b3 - b2) * 20 + (gross - b3) * 30
    IN  round_currency(tax, 100)

\* calculate_deductions that charges health insurance to every category but
\* CONTRACTOR
calculate_deductions_health_part_time(employee, gross_pay) ==
    LET gross == gross_pay
        health == IF employee.employee_type # "CONTRACTOR"
                    THEN "health_insurance" :> HEALTH_INSURANCE * Scale
                    ELSE EmptyDict
        retirement == IF employee.has_retirement
                        THEN "retirement" :> round_currency(gross * RETIREMENT_RATE, 100)
                        ELSE EmptyDict
        union == IF employee.is_union_member
                   THEN "union_dues" :> UNION_DUES * Scale
                   ELSE EmptyDict
    IN  health @@ retirement @@ union

\* calculate_deductions with the retirement rate taken as 5 instead of 0.05
calculate_deductions_retirement_rate_unscaled(employee, gross_pay) ==
    LET gross == gross_pay
        health == IF employee.employee_type = "FULL_TIME"
                    THEN "health_insurance" :> HEALTH_INSURANCE * Scale
                    ELSE EmptyDict
        retirement == IF employee.has_retirement
                        THEN "retirement" :> round_currency(gross * RETIREMENT_RATE, 1)
                        ELSE EmptyDict
        union == IF employee.is_union_member
                   THEN "union_dues" :> UNION_DUES * Scale
                   ELSE EmptyDict
    IN  health @@ retirement @@ union

\* calculate_deductions that leaves the retirement key out when the amount
\* rounds to zero
calculate_deductions_skip_zero(employee, gross_pay) ==
    LET gross == gross_pay
        health == IF employee.employee_type = "FULL_TIME"
                    THEN "health_insurance" :> HEALTH_INSURANCE * Scale
                    ELSE EmptyDict
        retirement == IF employee.has_retirement
                           /\ round_currency(gross * RETIREMENT_RATE, 100) # 0
                        THEN "retirement" :> round_currency(gross * RETIREMENT_RATE, 100)
                        ELSE EmptyDict
        union == IF employee.is_union_member
                   THEN "union_dues" :> UNION_DUES * Scale
                   ELSE EmptyDict
    IN  health @@ retirement @@ union

calculate_deductions(employee, gross_pay) ==
    LET gross == gross_pay
        health == IF employee.employee_type = "FULL_TIME"
                    THEN "health_insurance" :> HEALTH_INSURANCE * Scale
                    ELSE EmptyDict
        retirement == IF employee.has_retirement
                        THEN "retirement" :> round_currency(gross * RETIREMENT_RATE, 100)
                        ELSE EmptyDict
        union == IF employee.is_union_member
                   THEN "union_dues" :> UNION_DUES * Scale
                   ELSE EmptyDict
    IN  health @@ retirement @@ union

\* an outcome together with the calls that were made to produce it
Traced(r, calls) == [raised |-> r.raised, value |-> r.value, calls |-> calls]

\* generate_pay_slip whose net pay forgets the tax
generate_pay_slip_net_without_tax(employee, hours_or_days) ==
    LET g == calculate_gross_pay(employee, hours_or_days)
    IN  IF g.raised # Absent
          THEN Traced(Raise(g.raised[1]), <<"calculate_gross_pay">>)
        ELSE LET gross_pay == g.value[1]
                 tax_amount == calculate_tax(gross_pay)
                 deductions == calculate_deductions(employee, gross_pay)
                 total_deductions == SumValues(deductions)
                 net_pay == round_currency(gross_pay - total_deductions, 1)
             IN  Traced(Return(PaySlip(employee, gross_pay, tax_amount, deductions, net_pay)),
                        <<"calculate_gross_pay", "calculate_tax",
                          "calculate_deductions", "PaySlip">>)

\* generate_pay_slip that catches the error of calculate_gross_pay and hands
\* out an empty payslip
generate_pay_slip_swallows_error(employee, hours_or_days) ==
    LET g == calculate_gross_pay(employee, hours_or_days)
    IN  IF g.raised # Absent
          THEN Traced(Return(PaySlip(employee, 0, 0, EmptyDict, 0)),
                      <<"calculate_gross_pay", "PaySlip">>)
        ELSE LET gross_pay == g.value[1]
                 tax_amount == calculate_tax(gross_pay)
                 deductions == calculate_deductions(employee, gross_pay)
                 total_deductions == SumValues(deductions)
                 net_pay == round_currency(gross_pay - tax_amount - total_deductions, 1)
             IN  Traced(Return(PaySlip(employee, gross_pay, tax_amount, deductions, net_pay)),
                        <<"calculate_gross_pay", "calculate_tax",
                          "calculate_deductions", "PaySlip">>)

generate_pay_slip(employee, hours_or_days) ==
    LET g == calculate_gross_pay(employee, hours_or_days)
    IN  IF g.raised # Absent
          THEN Traced(Raise(g.raised[1]), <<"calculate_gross_pay">>)
        ELSE LET gross_pay == g.value[1]
                 tax_amount == calculate_tax(gross_pay)
                 deductions == calculate_deductions(employee, gross_pay)
                 total_deductions == SumValues(deductions)
                 net_pay == round_currency(gross_pay - tax_amount - total_deductions, 1)
             IN  Traced(Return(PaySlip(employee, gross_pay, tax_amount, deductions, net_pay)),
                        <<"calculate_gross_pay", "calculate_tax",
                          "calculate_deductions", "PaySlip">>)

\* select_h_or_d whose PART_TIME default is a full-time month of 160 hours
select_h_or_d_part_time_default_160(employee, map) ==
    IF employee.id \in DOMAIN map THEN map[employee.id]
    ELSE IF employee.employee_type = "PART_TIME"
      THEN 160 * UnitScale
    ELSE IF employee.employee_type = "CONTRACTOR"
      THEN DEFAULT_CONTRACTOR_DAYS * UnitScale
    ELSE DEFAULT_FULL_TIME_UNITS * UnitScale

\* select_h_or_d with the two defaults exchanged
select_h_or_d_defaults_swapped(employee, map) ==
    IF employee.id \in DOMAIN map THEN map[employee.id]
    ELSE IF employee.employee_type = "PART_TIME"
      THEN DEFAULT_CONTRACTOR_DAYS * UnitScale
    ELSE IF employee.employee_type = "CONTRACTOR"
      THEN DEFAULT_PART_TIME_HOURS * UnitScale
    ELSE DEFAULT_FULL_TIME_UNITS * UnitScale

\* lines 196-203: the worked units process_monthly_payroll hands to
\* generate_pay_slip for one employee of the list
select_h_or_d(employee, map) ==
    IF employee.id \in DOMAIN map THEN map[employee.id]
    ELSE IF employee.employee_type = "PART_TIME"
      THEN DEFAULT_PART_TIME_HOURS * UnitScale
    ELSE IF employee.employee_type = "CONTRACTOR"
      THEN DEFAULT_CONTRACTOR_DAYS * UnitScale
    ELSE DEFAULT_FULL_TIME_UNITS * UnitScale

(* ------------------------------ inputs -------------------------------- *)
\* employee_type values a caller can store in an Employee: the three enum
\* members and a value that is none of them
TypeValues == EmployeeType \cup {"INTERN"}

\* pay rates in mils: a negative rate (Employee.__init__ takes any number), 0,
\* sub-cent rates, the rates of the tests and of main.py
PayRates == {-25000, 0, 1, 5, 12345, 25000, 33330, 200000, 4000000, 6000000}

\* worked units in tenths: negative, zero, fractional, the 120 limit and above
WorkedUnits == {-10, 0, 75, 100, 800, 1199, 1200, 1201, 1210, 1500}

\* hourly and daily rates stay at or below 200 dollars, salaries go up to 6000
Employees ==
    {e \in {Employee(1, "emp", t, r, u, p) :
                t \in TypeValues, r \in PayRates, u \in BOOLEAN, p \in BOOLEAN} :
        e.employee_type \in {"PART_TIME", "CONTRACTOR"} => e.pay_rate <= 200000}

\* calculate_deductions never reads pay_rate: one rate is enough
DeductionEmployees ==
    {Employee(1, "emp", t, 25000, u, p) :
        t \in TypeValues, u \in BOOLEAN, p \in BOOLEAN}

BracketBounds ==
    {TAX_BRACKET_1_MAX * Scale, TAX_BRACKET_2_MAX * Scale, TAX_BRACKET_3_MAX * Scale}

GrossStep == 100 * Scale

\* gross values in mils handed to calculate_tax
GrossValues ==
    {b + d : b \in BracketBounds, d \in (-GrossWindow)..GrossWindow}
      \cup {k * GrossStep : k \in 0..GrossSteps}
      \cup {-1000, 1555550, 999995, 2000005, 4000015, 6000025}

\* gross values in mils handed to calculate_deductions
DeductionGross ==
    0..SmallGross \cup {-1000, -100, -90, 2000000, 4000000, 6000000, 333330}

\* the employees process_monthly_payroll is run on, one id each
Roster ==
    {Employee(1, "Alice", "FULL_TIME", 4000000, TRUE, TRUE),
     Employee(2, "Bob", "PART_TIME", 12345, FALSE, TRUE),
     Employee(3, "Carol", "CONTRACTOR", 200000, TRUE, FALSE),
     Employee(4, "Dan", "INTERN", 10000, FALSE, FALSE)}

RosterIds == {e.id : e \in Roster}

EmployeeLists == UNION {[1..n -> Roster] : n \in 0..MaxEmployees}

\* worked units found in a mapping: 7.5, 120, 121
MapUnits == {75, 1200, 1210}

\* the hours_or_days_map argument: omitted (None) or a dict keyed by ids
MapArgs ==
    {Absent} \cup {Some(m) : m \in UNION {[D -> MapUnits] : D \in SUBSET RosterIds}}

(* ------------------------------- state -------------------------------- *)
VARIABLES
    pc,                \* "idle", "loop", "returned" or "raised"
    fn,                \* the method invoked
    arg_employee,      \* employee argument, or Absent
    arg_units,         \* hours_or_days argument, or Absent
    arg_gross,         \* gross_pay argument, or Absent
    employee_list,     \* employee_list argument of process_monthly_payroll
    map_arg,           \* hours_or_days_map argument as passed (Absent = None)
    hours_or_days_map, \* local hours_or_days_map after lines 189-190
    idx,               \* position of the for loop in employee_list
    payslips,          \* local list payslips
    h_or_d_log,        \* the h_or_d of every generate_pay_slip call of the loop
    ret,               \* the value returned to the caller, or Absent
    exc,               \* the exception that reached the caller, or Absent
    call_log           \* the calls made by the latest generate_pay_slip

\* src/Text_analyzer: the objects of one analysis
VARIABLES
    counter,           \* the WordCounter (text, words, word_frequencies), or Absent
    report,            \* the StatisticsReport (word_frequencies, all_words), or Absent
    tfn,               \* the text analyzer method called, "none" between calls
    targ,              \* its argument, or Absent
    tret,              \* its return value, or Absent
    reader             \* the TextReader (normalized_content, "" at first)

text_vars == <<counter, report, tfn, targ, tret, reader>>

vars == <<pc, fn, arg_employee, arg_units, arg_gross, employee_list, map_arg,
          hours_or_days_map, idx, payslips, h_or_d_log, ret, exc, call_log,
          counter, report, tfn, targ, tret, reader>>

batch_vars == <<employee_list, map_arg, hours_or_days_map, idx, payslips, h_or_d_log>>

arg_vars == <<arg_employee, arg_units, arg_gross>>

\* a PayrollProcessor has no fields: between calls nothing is kept
Init ==
    /\ pc = "idle"
    /\ fn = "none"
    /\ arg_employee = Absent
    /\ arg_units = Absent
    /\ arg_gross = Absent
    /\ employee_list = << >>
    /\ map_arg = Absent
    /\ hours_or_days_map = EmptyDict
    /\ idx = 0
    /\ payslips = << >>
    /\ h_or_d_log = << >>
    /\ ret = Absent
    /\ exc = Absent
    /\ call_log = << >>
    /\ counter = Absent
    /\ report = Absent
    /\ tfn = "none"
    /\ targ = Absent
    /\ tret = Absent
    /\ reader = [normalized_content |-> << >>]

\* the outcome r of a call reaches the caller
Deliver(r) ==
    /\ pc' = IF r.raised # Absent THEN "raised" ELSE "returned"
    /\ ret' = r.value
    /\ exc' = r.raised

(* ------------------------------ actions ------------------------------- *)
CallCalculateGrossPay ==
    /\ pc = "idle"
    /\ \E employee \in Employees, hours_or_days \in WorkedUnits :
        /\ fn' = "calculate_gross_pay"
        /\ arg_employee' = Some(employee)
        /\ arg_units' = Some(hours_or_days)
        /\ Deliver(calculate_gross_pay(employee, hours_or_days))
        /\ UNCHANGED <<arg_gross, batch_vars, call_log, text_vars>>

CallCalculateTax ==
    /\ pc = "idle"
    /\ \E gross_pay \in GrossValues :
        /\ fn' = "calculate_tax"
        /\ arg_gross' = Some(gross_pay)
        /\ Deliver(Return(calculate_tax(gross_pay)))
        /\ UNCHANGED <<arg_employee, arg_units, batch_vars, call_log, text_vars>>

CallCalculateDeductions ==
    /\ pc = "idle"
    /\ \E employee \in DeductionEmployees, gross_pay \in DeductionGross :
        /\ fn' = "calculate_deductions"
        /\ arg_employee' = Some(employee)
        /\ arg_gross' = Some(gross_pay)
        /\ Deliver(Return(calculate_deductions(employee, gross_pay)))
        /\ UNCHANGED <<arg_units, batch_vars, call_log, text_vars>>

CallGeneratePaySlip ==
    /\ pc = "idle"
    /\ \E employee \in Employees, hours_or_days \in WorkedUnits :
        /\ fn' = "generate_pay_slip"
        /\ arg_employee' = Some(employee)
        /\ arg_units' = Some(hours_or_days)
        /\ Deliver(generate_pay_slip(employee, hours_or_days))
        /\ call_log' = generate_pay_slip(employee, hours_or_days).calls
        /\ UNCHANGED <<arg_gross, batch_vars, text_vars>>

\* lines 189-192: entry of process_monthly_payroll
CallProcessMonthlyPayroll ==
    /\ pc = "idle"
    /\ \E list \in EmployeeLists, m \in MapArgs :
        /\ fn' = "process_monthly_payroll"
        /\ employee_list' = list
        /\ map_arg' = m
        /\ hours_or_days_map' = IF m = Absent THEN EmptyDict ELSE m[1]
        /\ payslips' = << >>
        /\ idx' = 1
        /\ h_or_d_log' = << >>
        /\ pc' = "loop"
        /\ call_log' = << >>
        /\ UNCHANGED <<arg_vars, ret, exc, text_vars>>

\* the loop with payslips.insert(0, payslip) for payslips.append(payslip)
LoopIteration_prepend ==
    /\ pc = "loop"
    /\ idx <= Len(employee_list)
    /\ LET employee == employee_list[idx]
           h_or_d == select_h_or_d(employee, hours_or_days_map)
           r == generate_pay_slip(employee, h_or_d)
       IN  /\ h_or_d_log' = Append(h_or_d_log, h_or_d)
           /\ call_log' = r.calls
           /\ IF r.raised # Absent
                THEN /\ pc' = "raised"
                     /\ exc' = r.raised
                     /\ UNCHANGED <<idx, payslips, ret>>
                ELSE /\ payslips' = <<r.value[1]>> \o payslips
                     /\ idx' = idx + 1
                     /\ UNCHANGED <<pc, ret, exc>>
    /\ UNCHANGED <<fn, arg_vars, employee_list, map_arg, hours_or_days_map, text_vars>>

\* the loop with the call wrapped in try/except ValueError: continue
LoopIteration_continue_on_error ==
    /\ pc = "loop"
    /\ idx <= Len(employee_list)
    /\ LET employee == employee_list[idx]
           h_or_d == select_h_or_d(employee, hours_or_days_map)
           r == generate_pay_slip(employee, h_or_d)
       IN  /\ h_or_d_log' = Append(h_or_d_log, h_or_d)
           /\ call_log' = r.calls
           /\ payslips' = IF r.raised # Absent THEN payslips
                          ELSE Append(payslips, r.value[1])
           /\ idx' = idx + 1
           /\ UNCHANGED <<pc, ret, exc>>
    /\ UNCHANGED <<fn, arg_vars, employee_list, map_arg, hours_or_days_map, text_vars>>

\* the loop with one deductions dict shared by all iterations: a payslip
\* also carries the keys of the payslip before it
LoopIteration_shared_deductions ==
    /\ pc = "loop"
    /\ idx <= Len(employee_list)
    /\ LET employee == employee_list[idx]
           h_or_d == select_h_or_d(employee, hours_or_days_map)
           r == generate_pay_slip(employee, h_or_d)
           carried == IF payslips = << >> THEN EmptyDict
                      ELSE payslips[Len(payslips)].deductions
       IN  /\ h_or_d_log' = Append(h_or_d_log, h_or_d)
           /\ call_log' = r.calls
           /\ IF r.raised # Absent
                THEN /\ pc' = "raised"
                     /\ exc' = r.raised
                     /\ UNCHANGED <<idx, payslips, ret>>
                ELSE /\ payslips' = Append(payslips,
                            [r.value[1] EXCEPT !.deductions = @ @@ carried])
                     /\ idx' = idx + 1
                     /\ UNCHANGED <<pc, ret, exc>>
    /\ UNCHANGED <<fn, arg_vars, employee_list, map_arg, hours_or_days_map, text_vars>>

\* the loop with hours_or_days_map.setdefault(employee.id, default): the
\* caller's dict, when one was passed, gains the keys it lacked
LoopIteration_setdefault ==
    /\ pc = "loop"
    /\ idx <= Len(employee_list)
    /\ LET employee == employee_list[idx]
           h_or_d == select_h_or_d(employee, hours_or_days_map)
           r == generate_pay_slip(employee, h_or_d)
           written == (employee.id :> h_or_d) @@ hours_or_days_map
       IN  /\ h_or_d_log' = Append(h_or_d_log, h_or_d)
           /\ call_log' = r.calls
           /\ hours_or_days_map' = written
           /\ map_arg' = IF map_arg = Absent THEN Absent ELSE Some(written)
           /\ IF r.raised # Absent
                THEN /\ pc' = "raised"
                     /\ exc' = r.raised
                     /\ UNCHANGED <<idx, payslips, ret>>
                ELSE /\ payslips' = Append(payslips, r.value[1])
                     /\ idx' = idx + 1
                     /\ UNCHANGED <<pc, ret, exc>>
    /\ UNCHANGED <<fn, arg_vars, employee_list, text_vars>>

\* lines 194-206: one iteration of the for loop
LoopIteration ==
    /\ pc = "loop"
    /\ idx <= Len(employee_list)
    /\ LET employee == employee_list[idx]
           h_or_d == select_h_or_d(employee, hours_or_days_map)
           r == generate_pay_slip(employee, h_or_d)
       IN  /\ h_or_d_log' = Append(h_or_d_log, h_or_d)
           /\ call_log' = r.calls
           /\ IF r.raised # Absent
                THEN /\ pc' = "raised"
                     /\ exc' = r.raised
                     /\ UNCHANGED <<idx, payslips, ret>>
                ELSE /\ payslips' = Append(payslips, r.value[1])
                     /\ idx' = idx + 1
                     /\ UNCHANGED <<pc, ret, exc>>
    /\ UNCHANGED <<fn, arg_vars, employee_list, map_arg, hours_or_days_map, text_vars>>

\* line 208: return payslips
LoopExit ==
    /\ pc = "loop"
    /\ idx > Len(employee_list)
    /\ pc' = "returned"
    /\ ret' = Some(payslips)
    /\ UNCHANGED <<fn, arg_vars, batch_vars, exc, call_log, text_vars>>

\* the caller is done with the outcome; the processor is as constructed
Finish ==
    /\ pc \in {"returned", "raised"}
    /\ pc' = "idle"
    /\ fn' = "none"
    /\ arg_employee' = Absent
    /\ arg_units' = Absent
    /\ arg_gross' = Absent
    /\ employee_list' = << >>
    /\ map_arg' = Absent
    /\ hours_or_days_map' = EmptyDict
    /\ idx' = 0
    /\ payslips' = << >>
    /\ h_or_d_log' = << >>
    /\ ret' = Absent
    /\ exc' = Absent
    /\ call_log' = << >>
    /\ UNCHANGED text_vars

Next ==
    \/ CallCalculateGrossPay
    \/ CallCalculateTax
    \/ CallCalculateDeductions
    \/ CallGeneratePaySlip
    \/ CallProcessMonthlyPayroll
    \/ LoopIteration
    \/ LoopExit
    \/ Finish

Spec == Init /\ [][Next]_vars

(* ============================ Text_analyzer ============================ *)
\* A str is the sequence of its characters, each a one-character string; a
\* dict is the sequence of its (key, value) pairs in insertion order.

\* the characters str.split() separates at
Whitespace == {" ", "\t", "\n"}

Digits == <<"0", "1", "2", "3", "4", "5", "6", "7", "8", "9">>
UpperCase == <<"A", "B", "C", "D", "E", "F", "G", "H", "I", "J", "K", "L", "M",
               "N", "O", "P", "Q", "R", "S", "T", "U", "V", "W", "X", "Y", "Z">>
LowerCase == <<"a", "b", "c", "d", "e", "f", "g", "h", "i", "j", "k", "l", "m",
               "n", "o", "p", "q", "r", "s", "t", "u", "v", "w", "x", "y", "z">>

IndexIn(seq, c) == CHOOSE i \in 1..Len(seq) : seq[i] = c

\* the code point of a character of a word
ord(c) ==
    IF \E i \in 1..Len(Digits) : Digits[i] = c THEN 47 + IndexIn(Digits, c)
    ELSE IF \E i \in 1..Len(UpperCase) : UpperCase[i] = c THEN 64 + IndexIn(UpperCase, c)
    ELSE 96 + IndexIn(LowerCase, c)

\* a < b on str: the first differing character decides, a proper prefix is
\* smaller
RECURSIVE StrLess(_, _)
StrLess(a, b) ==
    IF b = << >> THEN FALSE
    ELSE IF a = << >> THEN TRUE
    ELSE IF Head(a) = Head(b) THEN StrLess(Tail(a), Tail(b))
    ELSE ord(Head(a)) < ord(Head(b))

\* str.split() without arguments: the maximal runs of non-whitespace
RECURSIVE split_scan(_, _, _)
split_scan(s, word, done) ==
    IF s = << >> THEN (IF word = << >> THEN done ELSE Append(done, word))
    ELSE IF Head(s) \in Whitespace
      THEN split_scan(Tail(s), << >>, IF word = << >> THEN done ELSE Append(done, word))
    ELSE split_scan(Tail(s), Append(word, Head(s)), done)

split(s) == split_scan(s, << >>, << >>)

\* lines 87-92
STOP_WORDS ==
    { <<"t","h","e">>, <<"a","n","d">>, <<"i","s">>, <<"a","t">>,
      <<"w","h","i","c","h">>, <<"o","n">>, <<"a">>, <<"a","n">>, <<"a","s">>,
      <<"a","r","e">>, <<"w","a","s">>, <<"w","e","r","e">>, <<"b","e","e","n">>,
      <<"b","e">>, <<"h","a","v","e">>, <<"h","a","s">>, <<"h","a","d">>,
      <<"d","o">>, <<"d","o","e","s">>, <<"d","i","d">>, <<"o","f">>, <<"t","o">>,
      <<"i","n">>, <<"f","o","r">>, <<"i","t">>, <<"w","i","t","h">>,
      <<"t","h","a","t">>, <<"t","h","i","s">>, <<"b","y">>,
      <<"f","r","o","m">>, <<"o","r">>, <<"b","u","t">> }

\* lines 94-103
WordCounter(text) == [text |-> text, words |-> << >>, word_frequencies |-> << >>]

\* what a method leaves in the object, and what it returns (Absent = None)
Method(self, value) == [self |-> self, value |-> value]

\* tokenize that keeps only the words longer than three characters
tokenize_longer_than_3(self) ==
    LET words == SelectSeq(split(self.text),
                           LAMBDA word : Len(word) > 3 /\ word \notin STOP_WORDS)
    IN  Method([self EXCEPT !.words = words], Some(words))

\* lines 105-122
tokenize(self) ==
    LET words == SelectSeq(split(self.text),
                           LAMBDA word : Len(word) >= 3 /\ word \notin STOP_WORDS)
    IN  Method([self EXCEPT !.words = words], Some(words))

\* collections.Counter over a list, as a dict: a key per distinct word in the
\* order of first occurrence, with the number of its occurrences
RECURSIVE Counter_scan(_, _)
Counter_scan(words, d) ==
    IF words = << >> THEN d
    ELSE LET w == Head(words)
         IN  IF \E i \in 1..Len(d) : d[i][1] = w
               THEN Counter_scan(Tail(words),
                        [i \in 1..Len(d) |->
                            IF d[i][1] = w THEN <<w, d[i][2] + 1>> ELSE d[i]])
               ELSE Counter_scan(Tail(words), Append(d, <<w, 1>>))

Counter(words) == Counter_scan(words, << >>)

\* lines 124-135
count_frequencies(self) ==
    LET tokenized == IF self.words = << >> THEN tokenize(self).self ELSE self
    IN  Method([tokenized EXCEPT !.word_frequencies = Counter(tokenized.words)], Absent)

\* get_word_frequencies that hands out the table as it is stored
get_word_frequencies_as_stored(self) ==
    Method(self, Some(self.word_frequencies))

\* lines 137-146
get_word_frequencies(self) ==
    LET counted == IF self.word_frequencies = << >>
                     THEN count_frequencies(self).self ELSE self
    IN  Method(counted, Some(counted.word_frequencies))

\* StatisticsReport.__init__ that reads counter.words before it asks for the
\* frequencies
StatisticsReport_words_first(word_counter) ==
    LET r == get_word_frequencies(word_counter)
    IN  Method(r.self, Some([word_frequencies |-> r.value[1],
                             all_words |-> word_counter.words]))

\* lines 152-161: the report and the counter after its construction
StatisticsReport(word_counter) ==
    LET r == get_word_frequencies(word_counter)
    IN  Method(r.self, Some([word_frequencies |-> r.value[1], all_words |-> r.self.words]))

\* k1 < k2 on the tuples (int, str) that serve as sort keys
KeyLess(k1, k2) == k1[1] < k2[1] \/ (k1[1] = k2[1] /\ StrLess(k1[2], k2[2]))

\* sorted(items, key=...) over the pairs (key(item), item): stable, an item
\* goes behind the items whose key is not larger
RECURSIVE sorted_insert(_, _)
sorted_insert(keyed, s) ==
    IF s = << >> THEN <<keyed>>
    ELSE IF KeyLess(keyed[1], Head(s)[1]) THEN <<keyed>> \o s
    ELSE <<Head(s)>> \o sorted_insert(keyed, Tail(s))

RECURSIVE sorted_keyed(_)
sorted_keyed(s) ==
    IF s = << >> THEN << >>
    ELSE sorted_insert(s[Len(s)], sorted_keyed(SubSeq(s, 1, Len(s) - 1)))

sorted(keyed_items) ==
    LET s == sorted_keyed(keyed_items) IN [i \in 1..Len(s) |-> s[i][2]]

\* seq[:n]: a negative n counts from the end
SliceTo(seq, n) ==
    LET stop == IF n >= 0 THEN n ELSE Len(seq) + n
    IN  SubSeq(seq, 1, IF stop > Len(seq) THEN Len(seq) ELSE IF stop < 0 THEN 0 ELSE stop)

\* get_top_n_words with key=lambda x: -x[1]: words of equal count stay in
\* the order of the table
get_top_n_words_key_count_only(self, n) ==
    LET items == self.word_frequencies
    IN  SliceTo(sorted([i \in 1..Len(items) |-> << <<-items[i][2], << >> >>, items[i] >>]), n)

\* lines 219-233
get_top_n_words(self, n) ==
    LET items == self.word_frequencies
    IN  SliceTo(sorted([i \in 1..Len(items) |-> << <<-items[i][2], items[i][1]>>, items[i] >>]), n)

\* max(iterable, key=...) over the pairs (key(item), item): the first item
\* whose key no other exceeds
RECURSIVE max_scan(_, _)
max_scan(s, best) ==
    IF s = << >> THEN best
    ELSE max_scan(Tail(s), IF Head(s)[1] > best[1] THEN Head(s) ELSE best)

max(keyed_items) == max_scan(Tail(keyed_items), Head(keyed_items))[2]

\* lines 163-170
get_total_word_count(self) == Len(self.all_words)

\* lines 172-179
get_unique_word_count(self) == Len(self.word_frequencies)

\* lines 194-204
get_longest_word(self) ==
    LET words == self.all_words
    IN  IF words = << >> THEN << >>
        ELSE max([i \in 1..Len(words) |-> <<Len(words[i]), words[i]>>])

\* get_most_frequent_word with the key of get_longest_word, the length of
\* the word
get_most_frequent_word_key_len(self) ==
    LET items == self.word_frequencies
    IN  IF items = << >> THEN << << >>, 0 >>
        ELSE max([i \in 1..Len(items) |-> <<Len(items[i][1]), items[i]>>])

\* get_most_frequent_word that goes through the table from its end: of
\* several words with the highest count it returns the last
get_most_frequent_word_last_of_ties(self) ==
    LET items == self.word_frequencies
        n == Len(items)
    IN  IF items = << >> THEN << << >>, 0 >>
        ELSE max([i \in 1..n |-> <<items[n + 1 - i][2], items[n + 1 - i]>>])

\* lines 206-217
get_most_frequent_word(self) ==
    LET items == self.word_frequencies
    IN  IF items = << >> THEN << << >>, 0 >>
        ELSE max([i \in 1..Len(items) |-> <<items[i][2], items[i]>>])

\* str.lower() of one character, as a str: A-Z go to a-z, the Kelvin sign
\* U+212A goes to k, U+00C9 to U+00E9, U+0130 to i and the combining dot
\* U+0307; the other characters of the model have no lower case of their own
lower_char(c) ==
    IF \E i \in 1..Len(UpperCase) : UpperCase[i] = c
      THEN <<LowerCase[IndexIn(UpperCase, c)]>>
    ELSE IF c = "U+212A" THEN <<"k">>
    ELSE IF c = "U+00C9" THEN <<"U+00E9">>
    ELSE IF c = "U+0130" THEN <<"i", "U+0307">>
    ELSE <<c>>

\* str.lower()
RECURSIVE lower(_)
lower(s) == IF s = << >> THEN << >> ELSE lower_char(Head(s)) \o lower(Tail(s))

\* word.startswith(prefix)
startswith(word, prefix) ==
    Len(prefix) <= Len(word) /\ SubSeq(word, 1, Len(prefix)) = prefix

\* get_words_starting_with that compares the prefix as it was given
get_words_starting_with_as_given(self, prefix) ==
    LET keys == [i \in 1..Len(self.word_frequencies) |-> self.word_frequencies[i][1]]
        matching_words == SelectSeq(keys, LAMBDA word : startswith(word, prefix))
    IN  sorted([i \in 1..Len(matching_words) |-> << <<0, matching_words[i]>>, matching_words[i] >>])

\* lines 235-250; sorted without a key orders the words themselves, here
\* the keys (0, word)
get_words_starting_with(self, prefix) ==
    LET lowered == lower(prefix)
        keys == [i \in 1..Len(self.word_frequencies) |-> self.word_frequencies[i][1]]
        matching_words == SelectSeq(keys, LAMBDA word : startswith(word, lowered))
    IN  sorted([i \in 1..Len(matching_words) |-> << <<0, matching_words[i]>>, matching_words[i] >>])

\* re.sub(r'[^a-z0-9\s]', ' ', text): a character that is no lower-case
\* ASCII letter, no digit and no whitespace becomes a space
sub_non_alphanumeric(text) ==
    [i \in 1..Len(text) |->
        IF \/ \E k \in 1..Len(LowerCase) : LowerCase[k] = text[i]
           \/ \E k \in 1..Len(Digits) : Digits[k] = text[i]
           \/ text[i] \in Whitespace
          THEN text[i] ELSE " "]

\* re.sub(r'\s+', ' ', text): every run of whitespace becomes one space
RECURSIVE sub_whitespace_runs(_)
sub_whitespace_runs(text) ==
    IF text = << >> THEN << >>
    ELSE IF Head(text) \notin Whitespace THEN <<Head(text)>> \o sub_whitespace_runs(Tail(text))
    ELSE IF Len(text) > 1 /\ text[2] \in Whitespace THEN sub_whitespace_runs(Tail(text))
    ELSE <<" ">> \o sub_whitespace_runs(Tail(text))

\* str.strip(): without the whitespace at both ends
RECURSIVE strip(_)
strip(text) ==
    IF text = << >> THEN << >>
    ELSE IF Head(text) \in Whitespace THEN strip(Tail(text))
    ELSE IF text[Len(text)] \in Whitespace THEN strip(SubSeq(text, 1, Len(text) - 1))
    ELSE text

\* normalize_text with the two substitutions in the other order
normalize_text_collapse_first(text) ==
    strip(sub_non_alphanumeric(sub_whitespace_runs(lower(text))))

\* lines 45-70: the value returned and stored in normalized_content
normalize_text(text) ==
    strip(sub_whitespace_runs(sub_non_alphanumeric(lower(text))))

(* ------------------------- text analyzer inputs ------------------------ *)
\* a short word, two stop words, a capitalised stop word and three words
\* that pass the filter
Vocabulary ==
    { <<"o","x">>, <<"t","h","e">>, <<"w","i","t","h">>, <<"T","h","e">>,
      <<"c","a","t">>, <<"a","p","p","l","e">>, <<"b","a","n","a","n","a">> }

WordLists == UNION {[1..n -> Vocabulary] : n \in 0..MaxWords}

\* sep.join(words)
RECURSIVE join(_, _)
join(sep, words) ==
    IF words = << >> THEN << >>
    ELSE IF Len(words) = 1 THEN words[1]
    ELSE words[1] \o sep \o join(sep, Tail(words))

\* the texts: the words separated by one space, or by a space and a tab
\* behind a leading newline and before a trailing space
Texts ==
    {join(<<" ">>, ws) : ws \in WordLists}
      \cup {<<"\n">> \o join(<<" ", "\t">>, ws) \o <<" ">> : ws \in WordLists}

\* the prefixes asked for: empty, lower and upper case, one no word starts with
Prefixes ==
    { << >>, <<"c">>, <<"C">>, <<"c","a">>, <<"C","A">>, <<"a">>, <<"A","p">>,
      <<"t">>, <<"T">>, <<"z">>, <<"b","a","n","a","n","a","s">> }

\* the characters of a raw text: letters in both cases, a digit, a space, a
\* newline, an apostrophe, a hyphen, the letter U+00E9 (e acute) and the
\* Kelvin sign U+212A
RawChars == {"a", "B", "7", " ", "\n", "'", "-", "U+00E9", "U+212A"}

RawTexts == UNION {[1..n -> RawChars] : n \in 0..MaxRaw}

payroll_vars == <<pc, fn, arg_vars, batch_vars, ret, exc, call_log>>

(* ------------------------ text analyzer actions ------------------------ *)
\* reader.normalize_text(text): a raw text while normalized_content is
\* empty, then, if called again, the text it returned
NormalizeText ==
    /\ tfn = "none"
    /\ counter = Absent
    /\ \E text \in (IF reader.normalized_content = << >>
                      THEN RawTexts ELSE {reader.normalized_content}) :
          /\ targ' = Some(text)
          /\ tret' = Some(normalize_text(text))
          /\ reader' = [normalized_content |-> normalize_text(text)]
    /\ tfn' = "normalize_text"
    /\ UNCHANGED <<counter, report, payroll_vars>>

\* WordCounter(text), once: the text of a counter is fixed; it is the
\* normalized content when the reader holds one (line 320), any text when
\* that is still empty
NewWordCounter ==
    /\ tfn = "none"
    /\ counter = Absent
    /\ \E text \in (IF reader.normalized_content = << >>
                      THEN Texts ELSE {reader.normalized_content}) :
          /\ counter' = Some(WordCounter(text))
          /\ targ' = Some(text)
    /\ tfn' = "WordCounter"
    /\ tret' = Absent
    /\ UNCHANGED <<report, reader, payroll_vars>>

\* counter.tokenize()
Tokenize ==
    /\ tfn = "none"
    /\ counter # Absent
    /\ LET m == tokenize(counter[1])
       IN  /\ counter' = Some(m.self)
           /\ tret' = m.value
    /\ tfn' = "tokenize"
    /\ targ' = Absent
    /\ UNCHANGED <<report, reader, payroll_vars>>

\* counter.count_frequencies()
CountFrequencies ==
    /\ tfn = "none"
    /\ counter # Absent
    /\ LET m == count_frequencies(counter[1])
       IN  /\ counter' = Some(m.self)
           /\ tret' = m.value
    /\ tfn' = "count_frequencies"
    /\ targ' = Absent
    /\ UNCHANGED <<report, reader, payroll_vars>>

\* counter.get_word_frequencies()
GetWordFrequencies ==
    /\ tfn = "none"
    /\ counter # Absent
    /\ LET m == get_word_frequencies(counter[1])
       IN  /\ counter' = Some(m.self)
           /\ tret' = m.value
    /\ tfn' = "get_word_frequencies"
    /\ targ' = Absent
    /\ UNCHANGED <<report, reader, payroll_vars>>

\* StatisticsReport(counter)
NewStatisticsReport ==
    /\ tfn = "none"
    /\ counter # Absent
    /\ LET m == StatisticsReport(counter[1])
       IN  /\ counter' = Some(m.self)
           /\ report' = m.value
    /\ tfn' = "StatisticsReport"
    /\ targ' = Absent
    /\ tret' = Absent
    /\ UNCHANGED <<reader, payroll_vars>>

\* report.get_top_n_words(n)
GetTopNWords ==
    /\ tfn = "none"
    /\ report # Absent
    /\ \E n \in -MaxN..MaxN :
          /\ targ' = Some(n)
          /\ tret' = Some(get_top_n_words(report[1], n))
    /\ tfn' = "get_top_n_words"
    /\ UNCHANGED <<counter, report, reader, payroll_vars>>

\* report.get_total_word_count()
GetTotalWordCount ==
    /\ tfn = "none"
    /\ report # Absent
    /\ tfn' = "get_total_word_count"
    /\ targ' = Absent
    /\ tret' = Some(get_total_word_count(report[1]))
    /\ UNCHANGED <<counter, report, reader, payroll_vars>>

\* report.get_unique_word_count()
GetUniqueWordCount ==
    /\ tfn = "none"
    /\ report # Absent
    /\ tfn' = "get_unique_word_count"
    /\ targ' = Absent
    /\ tret' = Some(get_unique_word_count(report[1]))
    /\ UNCHANGED <<counter, report, reader, payroll_vars>>

\* report.get_longest_word()
GetLongestWord ==
    /\ tfn = "none"
    /\ report # Absent
    /\ tfn' = "get_longest_word"
    /\ targ' = Absent
    /\ tret' = Some(get_longest_word(report[1]))
    /\ UNCHANGED <<counter, report, reader, payroll_vars>>

\* report.get_most_frequent_word()
GetMostFrequentWord ==
    /\ tfn = "none"
    /\ report # Absent
    /\ tfn' = "get_most_frequent_word"
    /\ targ' = Absent
    /\ tret' = Some(get_most_frequent_word(report[1]))
    /\ UNCHANGED <<counter, report, reader, payroll_vars>>

\* report.get_words_starting_with(prefix)
GetWordsStartingWith ==
    /\ tfn = "none"
    /\ report # Absent
    /\ \E prefix \in Prefixes :
          /\ targ' = Some(prefix)
          /\ tret' = Some(get_words_starting_with(report[1], prefix))
    /\ tfn' = "get_words_starting_with"
    /\ UNCHANGED <<counter, report, reader, payroll_vars>>

\* the call is over: the caller has its result and may call again
ReturnToCaller ==
    /\ tfn # "none"
    /\ tfn' = "none"
    /\ targ' = Absent
    /\ tret' = Absent
    /\ UNCHANGED <<counter, report, reader, payroll_vars>>

NextText ==
    \/ NormalizeText
    \/ NewWordCounter
    \/ Tokenize
    \/ CountFrequencies
    \/ GetWordFrequencies
    \/ NewStatisticsReport
    \/ GetTopNWords
    \/ GetTotalWordCount
    \/ GetUniqueWordCount
    \/ GetLongestWord
    \/ GetMostFrequentWord
    \/ GetWordsStartingWith
    \/ ReturnToCaller

SpecText == Init /\ [][NextText]_vars

(* ---------------------- vocabulary of the claims ---------------------- *)
\* c (mils) is the exact value num/den mils rounded to whole cents, a tie
\* going away from zero
IsRoundedHalfUp(c, num, den) ==
    /\ c % Quantum = 0
    /\ 2 * Abs(c * den - num) <= Quantum * den
    /\ 2 * Abs(c * den - num) = Quantum * den => Abs(c) * den > Abs(num)

\* the amount a deductions mapping holds under a key, 0 when the key is absent
Amount(d, k) == IF k \in DOMAIN d THEN d[k] ELSE 0

\* the three keys summed one by one
DeductionTotal(d) ==
    Amount(d, "health_insurance") + Amount(d, "retirement") + Amount(d, "union_dues")

\* every payslip the current invocation has produced so far
ProducedPaySlips ==
    IF fn = "generate_pay_slip" /\ pc = "returned" THEN {ret[1]}
    ELSE {payslips[i] : i \in 1..Len(payslips)}

\* every deductions mapping the current invocation has produced so far, with
\* the employee and the gross pay it was computed from
ProducedDeductions ==
    IF fn = "calculate_deductions" /\ pc = "returned"
      THEN {[employee |-> arg_employee[1], gross |-> arg_gross[1], deductions |-> ret[1]]}
      ELSE {[employee |-> ps.employee, gross |-> ps.gross_pay, deductions |-> ps.deductions] :
               ps \in ProducedPaySlips}

GrossPayCall(t) ==
    /\ fn = "calculate_gross_pay"
    /\ pc \in {"returned", "raised"}
    /\ arg_employee[1].employee_type = t

(* -------------------------------- C1 ---------------------------------- *)
\* C1: every payslip produced by generate_pay_slip, alone or inside a batch,
\* has net_pay = gross_pay - tax_amount - (sum of its deduction values),
\* exactly, on the stored rounded values.
C1_NetPayIdentity ==
    \A ps \in ProducedPaySlips :
        ps.net_pay = ps.gross_pay - ps.tax_amount - DeductionTotal(ps.deductions)

\* a payslip with tax, all three deductions and a retirement amount that was
\* rounded (gross 12.35 from the rate 12.345)
C1_Witness ==
    /\ fn = "generate_pay_slip"
    /\ pc = "returned"
    /\ ret[1].tax_amount > 0
    /\ DOMAIN ret[1].deductions = {"health_insurance", "retirement", "union_dues"}

(* -------------------------------- C2 ---------------------------------- *)
\* C2: calculate_gross_pay for a PART_TIME employee raises the 120-hours error
\* exactly when worked-units > 120; at 120 (and below) it returns
\* pay_rate x worked-units rounded to cents, which at 120 is the product
\* itself whenever the product is a whole number of cents.
C2_PartTimeLimit ==
    GrossPayCall("PART_TIME") =>
        LET h == arg_units[1]
            rate == arg_employee[1].pay_rate
        IN  /\ pc = "raised" <=> h > 120 * UnitScale
            /\ pc = "raised" => exc = Some(PartTimeHoursError) /\ ret = Absent
            /\ pc = "returned" => exc = Absent /\ IsRoundedHalfUp(ret[1], rate * h, UnitScale)
            /\ h = 120 * UnitScale =>
                  /\ pc = "returned"
                  /\ IsRoundedHalfUp(ret[1], rate * 120, 1)
                  /\ (rate * 120) % Quantum = 0 => ret[1] = rate * 120

C2_Witness ==
    /\ GrossPayCall("PART_TIME")
    /\ arg_units[1] = 121 * UnitScale
    /\ pc = "raised"

C2_WitnessAtLimit ==
    /\ GrossPayCall("PART_TIME")
    /\ arg_units[1] = 120 * UnitScale
    /\ pc = "returned"
    /\ ret[1] > 0

(* -------------------------------- C3 ---------------------------------- *)
\* the schedule of the claim, as a numerator over 100 (percent of mils)
ScheduleTax(g) ==
    IF g <= 1000 * Scale THEN 0
    ELSE IF g <= 3000 * Scale THEN 10 * (g - 1000 * Scale)
    ELSE IF g <= 5000 * Scale THEN 200 * Scale * 100 + 20 * (g - 3000 * Scale)
    ELSE 600 * Scale * 100 + 30 * (g - 5000 * Scale)

\* the part of g that falls in the bracket lo..hi
Portion(g, lo, hi) ==
    IF g <= lo THEN 0 ELSE IF g >= hi THEN hi - lo ELSE g - lo

\* the sum of the amounts falling in each bracket, each at its marginal rate
BracketSumTax(g) ==
    10 * Portion(g, 1000 * Scale, 3000 * Scale)
      + 20 * Portion(g, 3000 * Scale, 5000 * Scale)
      + 30 * (IF g > 5000 * Scale THEN g - 5000 * Scale ELSE 0)

TaxExamples ==
    (2000 * Scale :> 100 * Scale) @@ (3000 * Scale :> 200 * Scale)
      @@ (4000 * Scale :> 400 * Scale) @@ (5000 * Scale :> 600 * Scale)
      @@ (6000 * Scale :> 900 * Scale) @@ (1555550 :> 55560)

\* C3: for every non-negative gross, calculate_tax returns the progressive
\* schedule (0 / 10% / 200 + 20% / 600 + 30%), equal to the sum of the amounts
\* in each bracket, rounded half-up to cents once; the listed examples hold.
C3_ProgressiveTax ==
    (fn = "calculate_tax" /\ pc = "returned" /\ arg_gross[1] >= 0) =>
        LET g == arg_gross[1]
        IN  /\ exc = Absent
            /\ IsRoundedHalfUp(ret[1], ScheduleTax(g), 100)
            /\ IsRoundedHalfUp(ret[1], BracketSumTax(g), 100)
            /\ g <= 1000 * Scale => ret[1] = 0
            /\ g \in DOMAIN TaxExamples => ret[1] = TaxExamples[g]

\* a gross in the top bracket whose tax is rounded up: 6000.025 -> 900.01
C3_Witness ==
    /\ fn = "calculate_tax"
    /\ pc = "returned"
    /\ arg_gross[1] = 6000025
    /\ ret[1] = 900010

(* -------------------------------- C4 ---------------------------------- *)
\* the keys the claim gives an employee
ExpectedKeys(employee) ==
    {k \in {"health_insurance"} : employee.employee_type = "FULL_TIME"}
      \cup {k \in {"retirement"} : employee.has_retirement}
      \cup {k \in {"union_dues"} : employee.is_union_member}

\* C4: a deductions mapping has "health_insurance" (150) iff the category is
\* FULL_TIME, "retirement" (5% of gross, rounded to cents) iff the retirement
\* flag is set, "union_dues" (50) iff the union flag is set, and no other key.
C4_DeductionKeys ==
    \A x \in ProducedDeductions :
        LET d == x.deductions
        IN  /\ DOMAIN d = ExpectedKeys(x.employee)
            /\ "health_insurance" \in DOMAIN d => d["health_insurance"] = 150 * Scale
            /\ "union_dues" \in DOMAIN d => d["union_dues"] = 50 * Scale
            /\ "retirement" \in DOMAIN d => IsRoundedHalfUp(d["retirement"], 5 * x.gross, 100)

\* FULL_TIME with both flags: exactly the three keys
C4_Witness ==
    /\ fn = "calculate_deductions"
    /\ pc = "returned"
    /\ arg_employee[1].employee_type = "FULL_TIME"
    /\ arg_gross[1] = 6000 * Scale
    /\ ret[1] = ("health_insurance" :> 150000) @@ ("retirement" :> 300000)
                   @@ ("union_dues" :> 50000)

\* PART_TIME with both flags: no health_insurance
C4_WitnessPartTime ==
    /\ fn = "calculate_deductions"
    /\ pc = "returned"
    /\ arg_employee[1].employee_type = "PART_TIME"
    /\ DOMAIN ret[1] = {"retirement", "union_dues"}

(* -------------------------------- C5 ---------------------------------- *)
\* C5 as claimed: every key present in a deductions mapping has a strictly
\* positive value, "retirement" at gross 0 included.
C5_AllPresentPositive ==
    \A x \in ProducedDeductions :
        \A k \in DOMAIN x.deductions : x.deductions[k] > 0

\* C5 as amended: a key is present exactly when its deduction applies;
\* "health_insurance" and "union_dues" are strictly positive when present;
\* "retirement" is present whenever the retirement flag is set, and it is
\* strictly positive exactly when gross >= 0.10: it is 0.00 for a gross
\* strictly between -0.10 and 0.10 (gross 0 included) and negative below.
C5_PresentKeysAmended ==
    \A x \in ProducedDeductions :
        LET d == x.deductions
        IN  /\ DOMAIN d = ExpectedKeys(x.employee)
            /\ \A k \in DOMAIN d \ {"retirement"} : d[k] > 0
            /\ "retirement" \in DOMAIN d =>
                  /\ d["retirement"] > 0 <=> x.gross >= 100
                  /\ d["retirement"] = 0 <=> (x.gross > -100 /\ x.gross < 100)
                  /\ d["retirement"] < 0 <=> x.gross <= -100

\* the retirement key present with the amount 0.00 at gross 0
C5_Witness ==
    /\ fn = "calculate_deductions"
    /\ pc = "returned"
    /\ arg_gross[1] = 0
    /\ "retirement" \in DOMAIN ret[1]
    /\ ret[1]["retirement"] = 0

(* -------------------------------- C6 ---------------------------------- *)
\* C6: for a FULL_TIME employee calculate_gross_pay never raises and returns
\* pay_rate rounded to cents, whatever the worked-units (above 120 and
\* negative included): the result is a function of pay_rate alone.
C6_FullTimeIgnoresUnits ==
    GrossPayCall("FULL_TIME") =>
        /\ pc = "returned"
        /\ exc = Absent
        /\ IsRoundedHalfUp(ret[1], arg_employee[1].pay_rate, 1)

\* 121 hours, rate 12.345 -> 12.35
C6_Witness ==
    /\ GrossPayCall("FULL_TIME")
    /\ arg_units[1] > 120 * UnitScale
    /\ arg_employee[1].pay_rate = 12345
    /\ ret = Some(12350)

C6_WitnessNegative ==
    /\ GrossPayCall("FULL_TIME")
    /\ arg_units[1] < 0
    /\ ret = Some(arg_employee[1].pay_rate)

(* -------------------------------- C7 ---------------------------------- *)
\* C7: for a CONTRACTOR calculate_gross_pay never raises and returns
\* pay_rate x worked-units rounded to cents; worked-units above 120 are
\* accepted.
C7_ContractorNoCap ==
    GrossPayCall("CONTRACTOR") =>
        /\ pc = "returned"
        /\ exc = Absent
        /\ IsRoundedHalfUp(ret[1], arg_employee[1].pay_rate * arg_units[1], UnitScale)

\* 150 days at 200.00 -> 30000.00
C7_Witness ==
    /\ GrossPayCall("CONTRACTOR")
    /\ arg_units[1] = 1500
    /\ arg_employee[1].pay_rate = 200000
    /\ ret = Some(30000000)

(* ------------------------- batch vocabulary --------------------------- *)
BatchCall == fn = "process_monthly_payroll"

\* the mapping the caller passed, an omitted one read as empty
GivenMap == IF map_arg = Absent THEN EmptyDict ELSE map_arg[1]

\* the worked units the claims give an employee of the batch
ClaimUnits(e) ==
    IF e.id \in DOMAIN GivenMap THEN GivenMap[e.id]
    ELSE IF e.employee_type = "FULL_TIME" THEN 0
    ELSE IF e.employee_type = "PART_TIME" THEN 80 * UnitScale
    ELSE 20 * UnitScale

\* g is the gross pay the category formula gives employee e for h units
CategoryGross(e, h, g) ==
    /\ e.employee_type \in EmployeeType
    /\ e.employee_type = "FULL_TIME" => IsRoundedHalfUp(g, e.pay_rate, 1)
    /\ e.employee_type # "FULL_TIME" => IsRoundedHalfUp(g, e.pay_rate * h, UnitScale)

\* payslip generation fails for employee e of the batch
Fails(e) ==
    \/ e.employee_type \notin EmployeeType
    \/ e.employee_type = "PART_TIME" /\ ClaimUnits(e) > 120 * UnitScale

(* -------------------------------- C8 ---------------------------------- *)
\* C8: a list returned by process_monthly_payroll has one payslip per input
\* employee, in input order: same length, the i-th payslip refers to the
\* i-th employee and carries the gross pay of that employee's category.
C8_BatchOrder ==
    (BatchCall /\ pc = "returned") =>
        /\ exc = Absent
        /\ Len(ret[1]) = Len(employee_list)
        /\ \A i \in 1..Len(employee_list) :
              /\ ret[1][i].employee = employee_list[i]
              /\ CategoryGross(employee_list[i], ClaimUnits(employee_list[i]),
                               ret[1][i].gross_pay)

\* three employees, one per category, returned in input order
C8_Witness ==
    /\ BatchCall
    /\ pc = "returned"
    /\ Len(ret[1]) = 3
    /\ ret[1][1].employee.employee_type = "FULL_TIME"
    /\ ret[1][2].employee.employee_type = "PART_TIME"
    /\ ret[1][3].employee.employee_type = "CONTRACTOR"
    /\ map_arg # Absent

(* -------------------------------- C9 ---------------------------------- *)
\* C9: the worked units handed to generate_pay_slip for an employee of the
\* batch are the mapping's value for its id when the id is a key, otherwise
\* 0 for FULL_TIME, 80 for PART_TIME, 20 for CONTRACTOR; an omitted mapping
\* is an empty one; the payslip's gross pay is computed from those units.
C9_WorkedUnits ==
    BatchCall =>
        /\ map_arg = Absent => hours_or_days_map = EmptyDict
        /\ \A i \in 1..Len(h_or_d_log) :
              LET e == employee_list[i]
              IN  (e.id \in DOMAIN GivenMap \/ e.employee_type \in EmployeeType) =>
                     h_or_d_log[i] = ClaimUnits(e)
        /\ \A i \in 1..Len(payslips) :
              CategoryGross(employee_list[i], ClaimUnits(employee_list[i]),
                            payslips[i].gross_pay)

\* no mapping: the three defaults are used
C9_Witness ==
    /\ BatchCall
    /\ map_arg = Absent
    /\ Len(h_or_d_log) = 3
    /\ {h_or_d_log[i] : i \in 1..3} = {0, 800, 200}
    /\ Len(payslips) = 3

\* a mapping with a key for one employee and none for the next
C9_WitnessMapped ==
    /\ BatchCall
    /\ map_arg # Absent
    /\ Len(h_or_d_log) = 2
    /\ employee_list[1].id \in DOMAIN GivenMap
    /\ employee_list[2].id \notin DOMAIN GivenMap
    /\ h_or_d_log[1] = 75
    /\ h_or_d_log[2] = 800

(* -------------------------------- C10 --------------------------------- *)
\* while an employee at position k fails, the batch never gets past k and
\* never returns; once raised, the failing call was the last one
C10_Halted ==
    BatchCall =>
        /\ \A k \in 1..Len(employee_list) :
              Fails(employee_list[k]) =>
                 /\ idx <= k
                 /\ Len(payslips) < k
                 /\ Len(h_or_d_log) <= k
                 /\ pc # "returned"
                 /\ ret = Absent
        /\ pc = "raised" =>
              /\ Fails(employee_list[idx])
              /\ exc = IF employee_list[idx].employee_type = "PART_TIME"
                         THEN Some(PartTimeHoursError)
                         ELSE Some(UnknownTypeError(employee_list[idx].employee_type))
              /\ ret = Absent
              /\ Len(h_or_d_log) = idx
              /\ Len(payslips) = idx - 1

\* C10: if payslip generation fails for the employee at position k,
\* process_monthly_payroll raises in that very iteration, returns no list
\* (the payslips before k are not returned) and computes no payslip after k.
C10_FailFast ==
    /\ []C10_Halted
    /\ [][(BatchCall /\ pc = "loop" /\ idx <= Len(employee_list)
             /\ Fails(employee_list[idx]))
            => (pc' = "raised" /\ exc' # Absent /\ ret' = Absent
                  /\ payslips' = payslips /\ idx' = idx)]_vars
    /\ [][(BatchCall /\ pc = "raised") => pc' = "idle"]_vars

\* the second of three employees failed: one payslip was computed and is not
\* returned, the third employee was never reached
C10_Witness ==
    /\ BatchCall
    /\ pc = "raised"
    /\ idx = 2
    /\ Len(employee_list) = 3
    /\ Len(payslips) = 1
    /\ Len(h_or_d_log) = 2

(* -------------------------------- C11 --------------------------------- *)
\* calculate_gross_pay fails on these arguments: PART_TIME above 120, or a
\* category that is none of the three
GrossPayFails(e, h) ==
    \/ e.employee_type \notin EmployeeType
    \/ e.employee_type = "PART_TIME" /\ h > 120 * UnitScale

\* C11: when calculate_gross_pay fails, generate_pay_slip raises that same
\* error, returns no PaySlip, and has called neither calculate_tax nor
\* calculate_deductions nor the PaySlip constructor; when it does not fail,
\* a payslip is returned.
C11_GeneratePaySlipFailFast ==
    (fn = "generate_pay_slip" /\ pc \in {"returned", "raised"}) =>
        LET e == arg_employee[1]
            h == arg_units[1]
        IN  /\ pc = "raised" <=> GrossPayFails(e, h)
            /\ pc = "raised" =>
                  /\ exc = calculate_gross_pay(e, h).raised
                  /\ exc # Absent
                  /\ ret = Absent
                  /\ call_log = <<"calculate_gross_pay">>
            /\ pc = "returned" => exc = Absent /\ ret # Absent

\* PART_TIME with 121 hours through generate_pay_slip
C11_Witness ==
    /\ fn = "generate_pay_slip"
    /\ pc = "raised"
    /\ arg_employee[1].employee_type = "PART_TIME"
    /\ arg_units[1] = 121 * UnitScale
    /\ exc = Some(PartTimeHoursError)

(* -------------------------------- C12 --------------------------------- *)
\* a worked-units value as decimal text: the whole part and, when there is
\* one, the digit after the point
DecimalText(h) ==
    IF h % UnitScale = 0 THEN <<ToString(h \div UnitScale)>>
    ELSE <<ToString(h \div UnitScale), ToString(h % UnitScale)>>

\* the 120-hours error reached the caller of a single-employee method
PartTimeErrorRaised ==
    /\ fn \in {"calculate_gross_pay", "generate_pay_slip"}
    /\ pc = "raised"
    /\ arg_employee[1].employee_type = "PART_TIME"

\* the error carries the value v
ErrorCarries(e, v) ==
    \E i \in DOMAIN e.interpolated : <<e.interpolated[i]>> = v

\* C12 as claimed: the out-of-range error carries the offending worked-units
\* value (121 when 121 was passed).
C12_ErrorCarriesOffendingValue ==
    PartTimeErrorRaised => ErrorCarries(exc[1], DecimalText(arg_units[1]))

\* C12 as amended: the out-of-range error is a ValueError whose message
\* names the limit 120 and nothing else; it is the same for every rejected
\* value and does not carry the value that was passed.
C12_ErrorCarriesLimitOnly ==
    PartTimeErrorRaised =>
        /\ arg_units[1] > 120 * UnitScale
        /\ exc[1].type = "ValueError"
        /\ exc[1].interpolated = <<"120">>
        /\ ~ErrorCarries(exc[1], DecimalText(arg_units[1]))

\* 121 hours rejected
C12_Witness ==
    /\ PartTimeErrorRaised
    /\ arg_units[1] = 121 * UnitScale

(* -------------------------------- C13 --------------------------------- *)
UnknownCategory(e) == e.employee_type \notin EmployeeType

\* C13: for an employee whose category is none of the three,
\* calculate_gross_pay and generate_pay_slip raise the unknown-type error and
\* return nothing; no payslip ever refers to such an employee; a batch that
\* holds one never returns a list, with or without worked-units for it in the
\* mapping.
C13_UnknownCategoryAborts ==
    /\ (fn \in {"calculate_gross_pay", "generate_pay_slip"}
          /\ pc \in {"returned", "raised"} /\ UnknownCategory(arg_employee[1])) =>
            /\ pc = "raised"
            /\ ret = Absent
            /\ exc = Some(UnknownTypeError(arg_employee[1].employee_type))
    /\ \A ps \in ProducedPaySlips : ~UnknownCategory(ps.employee)
    /\ (BatchCall /\ \E k \in 1..Len(employee_list) : UnknownCategory(employee_list[k])) =>
            /\ pc # "returned"
            /\ ret = Absent
    /\ (BatchCall /\ pc = "raised" /\ UnknownCategory(employee_list[idx])) =>
            exc = Some(UnknownTypeError(employee_list[idx].employee_type))

\* a batch stopped by an unknown category that has worked-units in the mapping
C13_Witness ==
    /\ BatchCall
    /\ pc = "raised"
    /\ UnknownCategory(employee_list[idx])
    /\ employee_list[idx].id \in DOMAIN GivenMap
    /\ idx > 1

\* the same without worked-units in the mapping
C13_WitnessUnmapped ==
    /\ BatchCall
    /\ pc = "raised"
    /\ UnknownCategory(employee_list[idx])
    /\ employee_list[idx].id \notin DOMAIN GivenMap

(* -------------------------------- C14 --------------------------------- *)
\* ps is the payslip that employee e and worked units h determine
IsPaySlipOf(ps, e, h) ==
    /\ ps.employee = e
    /\ CategoryGross(e, h, ps.gross_pay)
    /\ IsRoundedHalfUp(ps.tax_amount, ScheduleTax(ps.gross_pay), 100)
    /\ DOMAIN ps.deductions = ExpectedKeys(e)
    /\ Amount(ps.deductions, "health_insurance")
          = IF e.employee_type = "FULL_TIME" THEN 150 * Scale ELSE 0
    /\ Amount(ps.deductions, "union_dues") = IF e.is_union_member THEN 50 * Scale ELSE 0
    /\ e.has_retirement => IsRoundedHalfUp(ps.deductions["retirement"], 5 * ps.gross_pay, 100)
    /\ ps.net_pay = ps.gross_pay - ps.tax_amount - DeductionTotal(ps.deductions)

\* C14: the i-th payslip of a batch is determined by the i-th employee and
\* its worked units alone: it is the payslip generate_pay_slip gives for
\* them, whatever precedes or follows, and equal inputs give equal payslips.
C14_PaySlipOfOwnInputs ==
    /\ BatchCall =>
          /\ \A i \in 1..Len(payslips) :
                /\ IsPaySlipOf(payslips[i], employee_list[i], h_or_d_log[i])
                /\ Some(payslips[i]) = generate_pay_slip(employee_list[i], h_or_d_log[i]).value
          /\ \A i, j \in 1..Len(payslips) :
                employee_list[i] = employee_list[j] => payslips[i] = payslips[j]
          /\ pc = "returned" => ret = Some(payslips)
    /\ (fn = "generate_pay_slip" /\ pc = "returned") =>
          IsPaySlipOf(ret[1], arg_employee[1], arg_units[1])

\* the same employee first and third, another one in between
C14_Witness ==
    /\ BatchCall
    /\ pc = "returned"
    /\ Len(payslips) = 3
    /\ employee_list[1] = employee_list[3]
    /\ employee_list[1] # employee_list[2]
    /\ payslips[1] = payslips[3]
    /\ DOMAIN payslips[1].deductions # DOMAIN payslips[2].deductions

(* -------------------------------- C15 --------------------------------- *)
\* the exact gross as a fraction num/den of mils
ExactGrossNum(e, h) ==
    IF e.employee_type = "FULL_TIME" THEN e.pay_rate * UnitScale ELSE e.pay_rate * h

\* cents: the magnitude n/den mils cut after the second decimal, plus one
\* cent when the third decimal is 5 or more
HalfUpCents(n, den) ==
    LET cent == Quantum * den
        whole == n \div cent
        third == ((n - whole * cent) * 10) \div cent
    IN  IF third >= 5 THEN whole + 1 ELSE whole

\* C15: a gross pay returned by calculate_gross_pay is the exact product (the
\* rate for FULL_TIME) with its second decimal kept and raised by one cent
\* when the third decimal is 5 or more (on the magnitude), never truncated
\* and never rounded half-even; 33.33 x 10 gives 333.30.
C15_GrossRoundedHalfUp ==
    (fn = "calculate_gross_pay" /\ pc = "returned") =>
        LET e == arg_employee[1]
            num == ExactGrossNum(e, arg_units[1])
        IN  /\ Abs(ret[1]) = HalfUpCents(Abs(num), UnitScale) * Quantum
            /\ num >= 0 => ret[1] >= 0
            /\ num <= 0 => ret[1] <= 0
            /\ (e.employee_type = "PART_TIME" /\ e.pay_rate = 33330
                  /\ arg_units[1] = 10 * UnitScale) => ret[1] = 333300

\* a tie after an even cent: 12.345 (FULL_TIME) gives 12.35
C15_Witness ==
    /\ fn = "calculate_gross_pay"
    /\ pc = "returned"
    /\ arg_employee[1].employee_type = "FULL_TIME"
    /\ arg_employee[1].pay_rate = 12345
    /\ ret = Some(12350)

\* a product rounded up: 12.345 x 7.5 = 92.5875 gives 92.59
C15_WitnessProduct ==
    /\ fn = "calculate_gross_pay"
    /\ pc = "returned"
    /\ arg_employee[1].employee_type = "PART_TIME"
    /\ arg_employee[1].pay_rate = 12345
    /\ arg_units[1] = 75
    /\ ret = Some(92590)

(* -------------------------------- C16 --------------------------------- *)
\* C16: a step of a running batch leaves the employee list (every field of
\* every Employee in it) and the worked-units mapping as the caller passed
\* them, and leaves every payslip already produced as it was; the list that
\* is returned refers to the employees as they were passed.
C16_InputsUntouched ==
    /\ [][(BatchCall /\ pc = "loop") =>
             /\ employee_list' = employee_list
             /\ map_arg' = map_arg
             /\ hours_or_days_map' = hours_or_days_map
             /\ Len(payslips') >= Len(payslips)
             /\ \A i \in 1..Len(payslips) : payslips'[i] = payslips[i]]_vars
    /\ [](BatchCall =>
             /\ hours_or_days_map = GivenMap
             /\ \A i \in 1..Len(payslips) : payslips[i].employee = employee_list[i])
    /\ []((pc \in {"returned", "raised"} /\ arg_employee # Absent
             /\ fn \in {"generate_pay_slip"} /\ ret # Absent) =>
             ret[1].employee = arg_employee[1])

\* a batch with a mapping that lacks the ids of its employees, two payslips
\* produced and a third on its way
C16_Witness ==
    /\ BatchCall
    /\ pc = "loop"
    /\ map_arg # Absent
    /\ Len(payslips) = 2
    /\ idx = 3
    /\ Len(employee_list) = 3
    /\ \E i \in 1..3 : employee_list[i].id \notin DOMAIN GivenMap

(* ---------------- vocabulary of the text analyzer claims --------------- *)
\* the words of a text: the maximal runs text[i..j] without whitespace, from
\* a place where a word starts to the first place behind it where one ends
WordSpans(text) ==
    LET places == 1..Len(text)
        starts == {i \in places :
                     text[i] \notin Whitespace /\ (i = 1 \/ text[i - 1] \in Whitespace)}
        ends == {j \in places :
                     text[j] \notin Whitespace /\ (j = Len(text) \/ text[j + 1] \in Whitespace)}
    IN  {sp \in starts \X ends :
            sp[1] <= sp[2] /\ \A k \in sp[1]..sp[2] : text[k] \notin Whitespace}

WordAt(text, sp) == SubSeq(text, sp[1], sp[2])

\* the words of at least 3 characters that are no stop words
KeptSpans(text) ==
    {sp \in WordSpans(text) :
        sp[2] - sp[1] + 1 >= 3 /\ WordAt(text, sp) \notin STOP_WORDS}

\* the kept words in the order of the text
FilteredWords(text) ==
    LET kept == KeptSpans(text)
        nth(k) == CHOOSE sp \in kept : Cardinality({q \in kept : q[1] < sp[1]}) = k - 1
    IN  [k \in 1..Cardinality(kept) |-> WordAt(text, nth(k))]

Occurrences(w, words) == Cardinality({k \in 1..Len(words) : words[k] = w})

\* t maps every word of the list, and nothing else, to its number of
\* occurrences
IsFrequencyTable(t, words) ==
    /\ \A i, j \in 1..Len(t) : t[i][1] = t[j][1] => i = j
    /\ {t[i][1] : i \in 1..Len(t)} = {words[k] : k \in 1..Len(words)}
    /\ \A i \in 1..Len(t) : t[i][2] = Occurrences(t[i][1], words)

\* a comes before b in the order of str: at the first place where they
\* differ a has the smaller character, or a ends there
AlphabeticalBefore(a, b) ==
    \E k \in 1..(Len(a) + 1) :
        /\ k <= Len(b)
        /\ \A i \in 1..(k - 1) : a[i] = b[i]
        /\ k = Len(a) + 1 \/ ord(a[k]) < ord(b[k])

\* pair x is ranked before pair y: more occurrences, or as many and the word
\* first in order
RankedBefore(x, y) ==
    x[2] > y[2] \/ (x[2] = y[2] /\ AlphabeticalBefore(x[1], y[1]))

TextOfCounter == counter[1].text

TopNCall == tfn = "get_top_n_words"

(* -------------------------------- C17 --------------------------------- *)
\* C17: tokenize returns exactly the whitespace-separated words of the text
\* that have at least 3 characters and are not in STOP_WORDS, in the order of
\* the text and as often as they occur; it stores that list in the counter.
C17_TokenizeFilters ==
    tfn = "tokenize" =>
        LET spans == WordSpans(TextOfCounter)
            kept == KeptSpans(TextOfCounter)
        IN  /\ tret = Some(FilteredWords(TextOfCounter))
            /\ counter[1].words = tret[1]
            /\ \A k \in 1..Len(tret[1]) :
                  Len(tret[1][k]) >= 3 /\ tret[1][k] \notin STOP_WORDS
            /\ \A sp \in spans :
                  Occurrences(WordAt(TextOfCounter, sp), tret[1])
                    = IF sp \in kept
                        THEN Cardinality({q \in spans :
                                WordAt(TextOfCounter, q) = WordAt(TextOfCounter, sp)})
                        ELSE 0

\* "\nthe \tcat \tcat ": the stop word goes, the 3-character word stays, twice
C17_Witness ==
    /\ tfn = "tokenize"
    /\ TextOfCounter = <<"\n", "t","h","e", " ","\t", "c","a","t", " ","\t", "c","a","t", " ">>
    /\ tret = Some(<< <<"c","a","t">>, <<"c","a","t">> >>)

\* "ox with The": the short word and the longer stop word go, the
\* capitalised word is no stop word
C17_WitnessShort ==
    /\ tfn = "tokenize"
    /\ TextOfCounter = <<"o","x", " ", "w","i","t","h", " ", "T","h","e">>
    /\ tret = Some(<< <<"T","h","e">> >>)

(* -------------------------------- C18 --------------------------------- *)
\* C18: whatever calls were made on the counter before, get_word_frequencies
\* returns the table that maps each filtered word of the text to its number
\* of occurrences among the filtered words, the empty table when there is
\* none; what the counter stores is never anything else than nothing yet or
\* these.
C18_FrequenciesAfterAnyCalls ==
    counter # Absent =>
        LET filtered == FilteredWords(TextOfCounter)
        IN  /\ tfn = "get_word_frequencies" =>
                  /\ IsFrequencyTable(tret[1], filtered)
                  /\ filtered = << >> => tret[1] = << >>
                  /\ counter[1].word_frequencies = tret[1]
            /\ counter[1].words \in {<< >>, filtered}
            /\ \/ counter[1].word_frequencies = << >>
               \/ IsFrequencyTable(counter[1].word_frequencies, filtered)

\* a word twice and another once, asked for before anything was tokenized
\* or after
C18_Witness ==
    /\ tfn = "get_word_frequencies"
    /\ tret = Some(<< <<<<"c","a","t">>, 2>>, <<<<"a","p","p","l","e">>, 1>> >>)

\* a text of which no word survives
C18_WitnessEmpty ==
    /\ tfn = "get_word_frequencies"
    /\ Cardinality(WordSpans(TextOfCounter)) = MaxWords
    /\ tret = Some(<< >>)

(* -------------------------------- C19 --------------------------------- *)
\* C19: for n >= 1, get_top_n_words(n) returns min(n, number of unique
\* words) pairs of the frequency table, ordered by count descending and,
\* among equal counts, by word ascending; every pair left out ranks behind
\* every pair returned.
C19_TopNRanked ==
    (TopNCall /\ targ[1] >= 1) =>
        LET r == tret[1]
            t == report[1].word_frequencies
            n == targ[1]
            returned == {r[i] : i \in 1..Len(r)}
            items == {t[i] : i \in 1..Len(t)}
        IN  /\ Len(r) = IF n < Len(t) THEN n ELSE Len(t)
            /\ returned \subseteq items
            /\ \A i, j \in 1..Len(r) : i < j => RankedBefore(r[i], r[j])
            /\ \A x \in items \ returned : \A i \in 1..Len(r) : RankedBefore(r[i], x)
            /\ n >= Len(t) => returned = items

\* three words once each, in the text in another order, two asked for
C19_Witness ==
    /\ TopNCall
    /\ targ = Some(2)
    /\ report[1].word_frequencies
         = << <<<<"c","a","t">>, 1>>, <<<<"b","a","n","a","n","a">>, 1>>,
              <<<<"a","p","p","l","e">>, 1>> >>
    /\ tret = Some(<< <<<<"a","p","p","l","e">>, 1>>, <<<<"b","a","n","a","n","a">>, 1>> >>)

\* more asked for than there are, the more frequent word first
C19_WitnessAll ==
    /\ TopNCall
    /\ targ = Some(3)
    /\ report[1].word_frequencies
         = << <<<<"a","p","p","l","e">>, 1>>, <<<<"c","a","t">>, 2>> >>
    /\ tret = Some(<< <<<<"c","a","t">>, 2>>, <<<<"a","p","p","l","e">>, 1>> >>)

(* -------------------------------- C20 --------------------------------- *)
\* C20: get_top_n_words(n) returns the empty list for every n <= 0,
\* whatever the number of unique words.
C20_NonPositiveGivesEmpty ==
    (TopNCall /\ targ[1] <= 0) => tret = Some(<< >>)

\* what line 233 returns instead: for n < 0 all pairs of the sorted table but
\* the last -n
C20_NegativeDropsFromEnd ==
    (TopNCall /\ targ[1] < 0) =>
        LET t == report[1].word_frequencies
            all == get_top_n_words(report[1], Len(t))
            kept == IF Len(t) + targ[1] > 0 THEN Len(t) + targ[1] ELSE 0
        IN  tret = Some(SubSeq(all, 1, kept))

\* "cat apple banana" asked for n = -1
C20_Witness ==
    /\ TopNCall
    /\ targ = Some(-1)
    /\ TextOfCounter = <<"c","a","t", " ", "a","p","p","l","e", " ", "b","a","n","a","n","a">>
    /\ tret = Some(<< <<<<"a","p","p","l","e">>, 1>>, <<<<"b","a","n","a","n","a">>, 1>> >>)


(* -------------------------------- C24 --------------------------------- *)
\* the tax at a bracket boundary, and the marginal rates (percent) on the
\* two sides of it
TaxAtBound == (1000 * Scale :> 0) @@ (3000 * Scale :> 200 * Scale)
                @@ (5000 * Scale :> 600 * Scale)

RateAbove == (1000 * Scale :> 10) @@ (3000 * Scale :> 20) @@ (5000 * Scale :> 30)

\* C24: for a non-negative gross the tax is at least 0, below the gross when
\* the gross is positive, and not above the tax of any larger gross; at
\* 1000, 3000 and 5000 it is 0, 200 and 600, just above a boundary it is the
\* tax at the boundary plus the marginal rate on the excess (rounded to
\* cents), just below it is at most one cent less.
C24_TaxMonotoneNoJump ==
    (fn = "calculate_tax" /\ pc = "returned" /\ arg_gross[1] >= 0) =>
        LET g == arg_gross[1]
            t == ret[1]
        IN  /\ t >= 0
            /\ g > 0 => t < g
            /\ \A g2 \in GrossValues : g <= g2 => t <= calculate_tax(g2)
            /\ g \in DOMAIN TaxAtBound => t = TaxAtBound[g]
            /\ \A b \in DOMAIN TaxAtBound :
                  /\ (g > b /\ g - b <= GrossWindow) =>
                        IsRoundedHalfUp(t - TaxAtBound[b], RateAbove[b] * (g - b), 100)
                  /\ (g < b /\ b - g <= GrossWindow) =>
                        (t <= TaxAtBound[b] /\ TaxAtBound[b] - t <= Quantum)

\* 3000.025: the 20% on 0.025 is half a cent and gives one cent above 200
C24_Witness ==
    /\ fn = "calculate_tax"
    /\ pc = "returned"
    /\ arg_gross = Some(3000 * Scale + 25)
    /\ ret = Some(200 * Scale + Quantum)

\* 4999.975, just below the last boundary: 600 is reached from below
C24_WitnessBelow ==
    /\ fn = "calculate_tax"
    /\ pc = "returned"
    /\ arg_gross = Some(5000 * Scale - 25)
    /\ ret = Some(600 * Scale)


(* -------------------------------- C25 --------------------------------- *)
\* the payslips produced so far, each with the worked units it was made from
ProducedPaySlipInputs ==
    IF fn = "generate_pay_slip" /\ pc = "returned" THEN {<<ret[1], arg_units[1]>>}
    ELSE {<<payslips[i], h_or_d_log[i]>> : i \in 1..Len(payslips)}

NonNegativeInputs(x) == x[1].employee.pay_rate >= 0 /\ x[2] >= 0

\* the flat deductions an employee owes: 150 for FULL_TIME, 50 for a union
\* member
FlatOwed(e) ==
    (IF e.employee_type = "FULL_TIME" THEN 150 * Scale ELSE 0)
      + (IF e.is_union_member THEN 50 * Scale ELSE 0)

\* C25 as claimed: the net pay of a payslip made from a non-negative pay rate
\* and non-negative worked units is never negative.
C25_NetPayNeverNegative ==
    \A x \in ProducedPaySlipInputs : NonNegativeInputs(x) => x[1].net_pay >= 0

\* C25 as amended: for a non-negative pay rate and non-negative worked units
\* the net pay is never below minus the flat deductions the employee owes;
\* it is non-negative when none is owed, and negative exactly when gross less
\* tax and retirement does not cover them.
C25_NetPayAtLeastMinusFlat ==
    \A x \in ProducedPaySlipInputs :
        NonNegativeInputs(x) =>
            LET ps == x[1]
                covered == ps.gross_pay - ps.tax_amount - Amount(ps.deductions, "retirement")
            IN  /\ ps.net_pay >= -FlatOwed(ps.employee)
                /\ FlatOwed(ps.employee) = 0 => ps.net_pay >= 0
                /\ covered >= 0
                /\ ps.net_pay < 0 <=> covered < FlatOwed(ps.employee)

\* FULL_TIME at 200.00 with union dues and retirement: 200 - 0 - 150 - 10 - 50
C25_Witness ==
    /\ fn = "generate_pay_slip"
    /\ pc = "returned"
    /\ arg_employee = Some(Employee(1, "emp", "FULL_TIME", 200 * Scale, TRUE, TRUE))
    /\ arg_units[1] >= 0
    /\ ret[1].net_pay = -10 * Scale


(* -------------------------------- C26 --------------------------------- *)
\* the batch holds only the three categories and the mapping holds none of
\* its employees
OnlyDefaults ==
    /\ BatchCall
    /\ \A k \in 1..Len(employee_list) :
          /\ employee_list[k].employee_type \in EmployeeType
          /\ employee_list[k].id \notin DOMAIN GivenMap

\* C26: a batch over FULL_TIME, PART_TIME and CONTRACTOR employees without a
\* mapping, or with a mapping that holds none of their ids, never fails: a
\* PART_TIME employee gets 80 hours, below the cap; a batch stopped by the
\* 120-hours error found more than 120 in the mapping for that employee.
C26_DefaultsNeverFail ==
    /\ OnlyDefaults =>
          /\ pc # "raised"
          /\ exc = Absent
          /\ \A i \in 1..Len(h_or_d_log) :
                employee_list[i].employee_type = "PART_TIME" =>
                    (h_or_d_log[i] = 80 * UnitScale /\ h_or_d_log[i] <= 120 * UnitScale)
          /\ pc = "returned" => Len(ret[1]) = Len(employee_list)
    /\ (BatchCall /\ pc = "raised" /\ exc = Some(PartTimeHoursError)) =>
          /\ employee_list[idx].id \in DOMAIN GivenMap
          /\ GivenMap[employee_list[idx].id] > 120 * UnitScale

\* no mapping, three employees, a PART_TIME one among them
C26_Witness ==
    /\ OnlyDefaults
    /\ pc = "returned"
    /\ map_arg = Absent
    /\ Len(ret[1]) = 3
    /\ \E k \in 1..3 : employee_list[k].employee_type = "PART_TIME"

\* a mapping with 121 hours under an id that is not in the list
C26_WitnessOtherIds ==
    /\ OnlyDefaults
    /\ pc = "returned"
    /\ \E id \in DOMAIN GivenMap : GivenMap[id] = 121 * UnitScale
    /\ \E k \in 1..Len(employee_list) : employee_list[k].employee_type = "PART_TIME"


(* -------------------------------- C27 --------------------------------- *)
\* a single-employee method was called for a PART_TIME employee and is over
PartTimeCallOver ==
    /\ fn \in {"calculate_gross_pay", "generate_pay_slip"}
    /\ pc \in {"returned", "raised"}
    /\ arg_employee[1].employee_type = "PART_TIME"

\* the gross pay the call gave
GrossOfCall == IF fn = "calculate_gross_pay" THEN ret[1] ELSE ret[1].gross_pay

\* C27: for PART_TIME only worked units above 120 are rejected: negative
\* worked units are accepted and give the (rounded) product, which is
\* negative for a positive pay rate as soon as it is half a cent or more in
\* magnitude; with a non-negative pay rate and non-negative worked units the
\* gross pay of a payslip is never negative.
C27_OnlyUpperBoundChecked ==
    /\ PartTimeCallOver =>
          /\ pc = "raised" <=> arg_units[1] > 120 * UnitScale
          /\ arg_units[1] < 0 =>
                /\ IsRoundedHalfUp(GrossOfCall, arg_employee[1].pay_rate * arg_units[1], UnitScale)
                /\ GrossOfCall <= 0 \/ arg_employee[1].pay_rate < 0
                /\ 2 * arg_employee[1].pay_rate * (-arg_units[1]) >= Quantum * UnitScale
                      => GrossOfCall < 0
    /\ \A x \in ProducedPaySlipInputs : NonNegativeInputs(x) => x[1].gross_pay >= 0

\* 12.345 an hour for -1 hour: a payslip with gross pay -12.35
C27_Witness ==
    /\ fn = "generate_pay_slip"
    /\ pc = "returned"
    /\ arg_employee[1].employee_type = "PART_TIME"
    /\ arg_employee[1].pay_rate = 12345
    /\ arg_units = Some(-10)
    /\ ret[1].gross_pay = -12350

\* a negative pay rate with non-negative worked units: gross pay below zero
C27_WitnessNegativeRate ==
    /\ fn = "generate_pay_slip"
    /\ pc = "returned"
    /\ arg_employee[1].pay_rate < 0
    /\ arg_units[1] > 0
    /\ ret[1].gross_pay < 0


(* -------------------------------- C21 --------------------------------- *)
\* no word of the text survives the filter
NoWordSurvives == FilteredWords(TextOfCounter) = << >>

\* C21: get_most_frequent_word returns a pair of the frequency table whose
\* count is the number of occurrences of its word and is exceeded by no
\* other count; when no word survives the filter it returns ("", 0),
\* get_longest_word returns "", and the total and unique word counts are 0.
C21_MostFrequentAndEmpty ==
    report # Absent =>
        /\ tfn = "get_most_frequent_word" =>
              LET t == report[1].word_frequencies
                  r == tret[1]
              IN  IF NoWordSurvives THEN r = << << >>, 0 >>
                  ELSE /\ \E i \in 1..Len(t) : t[i] = r
                       /\ r[2] = Occurrences(r[1], FilteredWords(TextOfCounter))
                       /\ \A j \in 1..Len(t) : t[j][2] <= r[2]
        /\ (tfn = "get_longest_word" /\ NoWordSurvives) => tret = Some(<< >>)
        /\ (tfn \in {"get_total_word_count", "get_unique_word_count"} /\ NoWordSurvives)
              => tret = Some(0)

\* "apple cat cat": the longer word comes first, the other is more frequent
C21_Witness ==
    /\ tfn = "get_most_frequent_word"
    /\ report[1].word_frequencies = << <<<<"a","p","p","l","e">>, 1>>, <<<<"c","a","t">>, 2>> >>
    /\ tret = Some(<< <<"c","a","t">>, 2 >>)

\* only stop words and short words
C21_WitnessEmpty ==
    /\ tfn = "get_most_frequent_word"
    /\ Cardinality(WordSpans(TextOfCounter)) = MaxWords
    /\ tret = Some(<< << >>, 0 >>)

\* only whitespace
C21_WitnessWhitespace ==
    /\ tfn = "get_longest_word"
    /\ TextOfCounter = <<"\n", " ">>
    /\ tret = Some(<< >>)


(* -------------------------------- C22 --------------------------------- *)
\* a prefix of ASCII letters with A-Z replaced by a-z
LowerCased(p) ==
    [i \in 1..Len(p) |->
        IF \E k \in 1..Len(UpperCase) : UpperCase[k] = p[i]
          THEN LowerCase[CHOOSE k \in 1..Len(UpperCase) : UpperCase[k] = p[i]]
          ELSE p[i]]

\* word w begins with p
BeginsWith(w, p) ==
    Len(p) <= Len(w) /\ \A i \in 1..Len(p) : w[i] = p[i]

\* C22: get_words_starting_with(prefix) returns, in strictly ascending order
\* (so without duplicates), exactly the words of the frequency table that
\* begin with the lower-cased prefix; the empty prefix gives every word of
\* the table, a prefix no word begins with gives the empty list, and the
\* prefix in upper case gives what the prefix in lower case gives.
C22_WordsStartingWith ==
    tfn = "get_words_starting_with" =>
        LET t == report[1].word_frequencies
            keys == {t[i][1] : i \in 1..Len(t)}
            p == LowerCased(targ[1])
            r == tret[1]
        IN  /\ {r[i] : i \in 1..Len(r)} = {w \in keys : BeginsWith(w, p)}
            /\ \A i \in 1..(Len(r) - 1) : AlphabeticalBefore(r[i], r[i + 1])
            /\ targ[1] = << >> => Len(r) = Len(t)
            /\ (\A w \in keys : ~BeginsWith(w, p)) => r = << >>
            /\ r = get_words_starting_with(report[1], p)

\* "cat apple cat" asked for "C": the upper-case prefix finds cat, once
C22_Witness ==
    /\ tfn = "get_words_starting_with"
    /\ targ = Some(<<"C">>)
    /\ report[1].word_frequencies = << <<<<"c","a","t">>, 2>>, <<<<"a","p","p","l","e">>, 1>> >>
    /\ tret = Some(<< <<"c","a","t">> >>)

\* the empty prefix: every word of the table, in order
C22_WitnessEmptyPrefix ==
    /\ tfn = "get_words_starting_with"
    /\ targ = Some(<< >>)
    /\ report[1].word_frequencies
         = << <<<<"c","a","t">>, 1>>, <<<<"b","a","n","a","n","a">>, 1>>,
              <<<<"a","p","p","l","e">>, 1>> >>
    /\ tret = Some(<< <<"a","p","p","l","e">>, <<"b","a","n","a","n","a">>, <<"c","a","t">> >>)


(* -------------------------------- C23 --------------------------------- *)
AsciiAlphanumeric ==
    {Digits[i] : i \in 1..Len(Digits)} \cup {UpperCase[i] : i \in 1..Len(UpperCase)}
      \cup {LowerCase[i] : i \in 1..Len(LowerCase)}

\* the maximal runs text[i..j] of ASCII letters and digits
AlphanumericSpans(text) ==
    LET places == 1..Len(text)
        in(i) == text[i] \in AsciiAlphanumeric
        starts == {i \in places : in(i) /\ (i = 1 \/ ~in(i - 1))}
        ends == {j \in places : in(j) /\ (j = Len(text) \/ ~in(j + 1))}
    IN  {sp \in starts \X ends : sp[1] <= sp[2] /\ \A k \in sp[1]..sp[2] : in(k)}

\* these runs in lower case, in the order of the text, with one space between
\* two of them
SeparatedWords(text) ==
    LET runs == AlphanumericSpans(text)
        nth(k) == CHOOSE sp \in runs : Cardinality({q \in runs : q[1] < sp[1]}) = k - 1
    IN  join(<<" ">>, [k \in 1..Cardinality(runs) |-> LowerCased(WordAt(text, nth(k)))])

\* text is made of a-z, 0-9 and single spaces between words
IsNormalForm(text) ==
    /\ \A i \in 1..Len(text) :
          \/ text[i] = " "
          \/ \E k \in 1..Len(LowerCase) : LowerCase[k] = text[i]
          \/ \E k \in 1..Len(Digits) : Digits[k] = text[i]
    /\ text # << >> => (text[1] # " " /\ text[Len(text)] # " ")
    /\ \A i \in 1..(Len(text) - 1) : ~(text[i] = " " /\ text[i + 1] = " ")

\* C23: normalize_text returns a string of a-z, 0-9 and single spaces without
\* a space at either end: the ASCII letters of the input in lower case and
\* its digits, every other character (punctuation, apostrophe, hyphen,
\* non-ASCII letter, whitespace) acting as a separator and every run of
\* separators giving one space.
C23_NormalizeText ==
    tfn = "normalize_text" =>
        /\ IsNormalForm(tret[1])
        /\ tret[1] = SeparatedWords(targ[1])
        /\ reader.normalized_content = tret[1]

\* what holds of every input: the result is in normal form
C23_ResultInNormalForm ==
    tfn = "normalize_text" => IsNormalForm(tret[1])

\* the Kelvin sign before a digit comes back as the letter k
C23_Witness ==
    /\ tfn = "normalize_text"
    /\ targ = Some(<<"U+212A", "7">>)
    /\ tret = Some(<<"k", "7">>)

\* apostrophe, newline and upper case: " a\n'B" gives "a b"
C23_WitnessSeparators ==
    /\ tfn = "normalize_text"
    /\ targ = Some(<<"a", "\n", "'", "B">>)
    /\ tret = Some(<<"a", " ", "b">>)


(* -------------------------------- C28 --------------------------------- *)
\* the sum of the counts of a frequency table
RECURSIVE SumOfCounts(_)
SumOfCounts(t) == IF t = << >> THEN 0 ELSE t[1][2] + SumOfCounts(Tail(t))

\* C28: in every report, whatever was called on the counter before it was
\* built, the frequencies add up to the total word count, each is at least 1,
\* the keys of the table are exactly the distinct words of the word list
\* (each with its number of occurrences), and the unique word count is at
\* most the total word count.
C28_ReportConsistent ==
    report # Absent =>
        LET t == report[1].word_frequencies
            w == report[1].all_words
        IN  /\ SumOfCounts(t) = get_total_word_count(report[1])
            /\ SumOfCounts(t) = Len(w)
            /\ \A i \in 1..Len(t) : t[i][2] >= 1
            /\ \A i, j \in 1..Len(t) : t[i][1] = t[j][1] => i = j
            /\ {t[i][1] : i \in 1..Len(t)} = {w[k] : k \in 1..Len(w)}
            /\ \A i \in 1..Len(t) : t[i][2] = Occurrences(t[i][1], w)
            /\ w = FilteredWords(TextOfCounter)
            /\ Len(t) <= Len(w)
            /\ tfn = "get_total_word_count" => tret = Some(Len(w))
            /\ tfn = "get_unique_word_count" => (tret = Some(Len(t)) /\ tret[1] <= Len(w))

\* three words, two of them the same: total 3, frequencies 2 and 1
C28_Witness ==
    /\ tfn = "get_total_word_count"
    /\ tret = Some(3)
    /\ report[1].word_frequencies = << <<<<"c","a","t">>, 2>>, <<<<"a","p","p","l","e">>, 1>> >>

\* a report of a text of which nothing survives
C28_WitnessEmpty ==
    /\ tfn = "get_unique_word_count"
    /\ tret = Some(0)
    /\ TextOfCounter # << >>


(* -------------------------------- C29 --------------------------------- *)
\* get_most_frequent_word was called on a report with words
MostFrequentCall ==
    tfn = "get_most_frequent_word" /\ report[1].word_frequencies # << >>

\* the first element of get_top_n_words(1)
TopRanked == get_top_n_words(report[1], 1)[1]

\* the place of the first occurrence of word w in the list
FirstOccurrence(w, words) ==
    CHOOSE k \in 1..Len(words) : words[k] = w /\ \A j \in 1..(k - 1) : words[j] # w

\* C29 as claimed: on a table with words get_most_frequent_word returns the
\* pair that get_top_n_words(1) returns first, also when several words share
\* the highest count.
C29_MostFrequentIsTopRanked ==
    MostFrequentCall => tret[1] = TopRanked

\* C29 as amended: the two pairs have the same count, the highest of the
\* table, and are the same pair when one word alone has it; of several words
\* with the highest count get_most_frequent_word returns the one that occurs
\* first in the text and get_top_n_words(1) the first in the order of str.
C29_SameCountFirstInText ==
    MostFrequentCall =>
        LET t == report[1].word_frequencies
            w == report[1].all_words
            r == tret[1]
            highest == {t[i] : i \in {i \in 1..Len(t) : \A j \in 1..Len(t) : t[j][2] <= t[i][2]}}
        IN  /\ r \in highest
            /\ TopRanked \in highest
            /\ r[2] = TopRanked[2]
            /\ Cardinality(highest) = 1 => r = TopRanked
            /\ \A x \in highest \ {r} : FirstOccurrence(r[1], w) < FirstOccurrence(x[1], w)
            /\ \A x \in highest \ {TopRanked} : AlphabeticalBefore(TopRanked[1], x[1])

\* "cat apple": the word named most frequent is cat, the word ranked first
\* is apple
C29_Witness ==
    /\ MostFrequentCall
    /\ TextOfCounter = <<"c","a","t", " ", "a","p","p","l","e">>
    /\ tret = Some(<< <<"c","a","t">>, 1 >>)
    /\ TopRanked = << <<"a","p","p","l","e">>, 1 >>

\* "cat apple apple": one word alone has the highest count, both name it
C29_WitnessAlone ==
    /\ MostFrequentCall
    /\ TextOfCounter = <<"c","a","t", " ", "a","p","p","l","e", " ", "a","p","p","l","e">>
    /\ tret = Some(TopRanked)


(* -------------------------------- C30 --------------------------------- *)
\* C30: what normalize_text returns is returned unchanged when it is
\* normalized again, and a text in normal form is returned as it is; what
\* tokenize returns is what tokenize returns when it is called again on the
\* same counter, and the counter is then left as it was.
C30_Idempotent ==
    /\ [](tfn = "normalize_text" =>
             /\ normalize_text(tret[1]) = tret[1]
             /\ IsNormalForm(targ[1]) => tret = targ)
    /\ [][(tfn' = "normalize_text" /\ reader.normalized_content # << >>) =>
             (tret' = Some(reader.normalized_content) /\ reader' = reader)]_vars
    /\ [](tfn = "tokenize" =>
             /\ tokenize(counter[1]).value = tret
             /\ tokenize(counter[1]).self = counter[1])
    /\ [][(tfn' = "tokenize" /\ counter # Absent /\ counter[1].words # << >>) =>
             (tret' = Some(counter[1].words) /\ counter' = counter)]_vars

\* normalize_text called again on the "a b" it returned
C30_Witness ==
    /\ tfn = "normalize_text"
    /\ reader.normalized_content = <<"a", " ", "b">>
    /\ targ = Some(<<"a", " ", "b">>)
    /\ tret = targ

\* tokenize on "cat ox cat"
C30_WitnessTokenize ==
    /\ tfn = "tokenize"
    /\ TextOfCounter = <<"c","a","t", " ", "o","x", " ", "c","a","t">>
    /\ tret = Some(<< <<"c","a","t">>, <<"c","a","t">> >>)

====
